---- MODULE Spec2Model ----
(***************************************************************************)
(* Verification model of the onecrawl acquisition engine:                  *)
(*   - WebActionManager (persistent per-profile browser sessions)          *)
(*   - PlaywrightScraperAdapter.scrape / scrapeMany, SearchAdapter         *)
(*     .searchParallel and scrapeWithRetry (batch windows, retries)        *)
(*   - ScrapeUseCase / SearchUseCase (backend selection and fallback)      *)
(* Each component has its own specification over its own variables; the    *)
(* variables of the other components stay at their initial value.          *)
(***************************************************************************)
EXTENDS Integers, Sequences, FiniteSets, TLC

\* ------------------------------------------------------------------------
\* Bounds of the model
\* ------------------------------------------------------------------------
MaxCallers == 2
MaxCalls == 2
MaxTicks == 1
MaxUrls == 3
MaxConcurrency == 2
MaxRetries == 1
MaxScrapes == 2
MaxTime == 1
MaxOps == 3
MaxLruTtl == 1
MaxKey == 22
LargeSize == 20
MaxSends == 1
MaxMessages == 3
MaxConnects == 1
MaxCdpTicks == 4
MaxRequests == 1
MaxGotoTicks == 3
MaxGets == 3
MaxShutdowns == 1
MaxListings == 3
MaxEntryPoints == 2
MaxLinks == 2
MaxPagesTwice == 5
MaxDepthTwice == 2
MaxWrites == 3
MaxCookieCalls == 3
MaxCookiesPerCall == 1

\* ------------------------------------------------------------------------
\* Program constants
\* ------------------------------------------------------------------------
SESSION_IDLE_TIMEOUT_MS == 1800000
CLEANUP_INTERVAL_MS == 300000
STALE_PENDING_THRESHOLD_MS == 30000
POLL_DELAY_MS == 100

None == 0

VARIABLES
  \* WebActionManager
  sessions,    \* Map<string, WebSession>: profileId -> session id, None if absent
  sess,        \* the WebSession objects ever created, by session id
  ctxState,    \* browser contexts by id: "open", "closed" or "detached"
  call,        \* the asynchronous manager calls in progress, per caller
  callCount,   \* number of calls issued so far
  now          \* Date.now()

smVars == <<sessions, sess, ctxState, call, callCount, now>>

VARIABLES
  \* WebActionManager: start, stop and the idle cleanup
  mgrTimer,    \* this.cleanupTimer: set or not, and when the interval fires next
  mgrCleanup,  \* the cleanupIdle scan in progress: its expired list, what it closes
  mgrStop,     \* the stop() call in progress: the sessions it is closing
  mgrEvicted   \* the sessions cleanupIdle closed, with their idle time at the close

mgrVars == <<mgrTimer, mgrCleanup, mgrStop, mgrEvicted>>

VARIABLES
  \* scrapeMany / searchParallel / scrapeWithRetry
  bMode,        \* which batch implementation runs
  urls,         \* the targets, in call order
  concurrency,  \* options.concurrency
  retries,      \* options.retries
  useCache,     \* scrapeOptions.cache
  aborted,      \* signal.aborted
  abortedAtCall,\* signal.aborted at the time the batch was called
  bpc,          \* position of the batch call
  bi,           \* loop variable i of the window loop
  task,         \* the per-target async closures, by index into urls
  results,      \* keys of the results map
  searchResults,\* the results array of searchParallel (queries pushed)
  failed,       \* the failed map: target -> error
  bCache,       \* keys held by the adapter's result cache
  okSeen,       \* targets for which the backend has returned a page
  failSeen,     \* targets for which the backend has thrown
  ucReturn      \* what executeMany handed to its caller

batchVars == <<bMode, urls, concurrency, retries, useCache, aborted, abortedAtCall,
               bpc, bi, task, results, searchResults, failed, bCache, okSeen,
               failSeen, ucReturn>>

VARIABLES
  \* ScrapeUseCase.execute
  ucVariant,   \* which build: "full" (browser, playwright, undici, fetch) or "basic"
  ucOpts,      \* the options of the call
  ucPc,        \* position of the call
  ucIdx,       \* position in the list of browser-class scrapers
  ucLog,       \* the backend methods invoked so far, with their outcome
  ucOutcome    \* how the call settled

ucVars == <<ucVariant, ucOpts, ucPc, ucIdx, ucLog, ucOutcome>>

VARIABLES
  \* PlaywrightScraperAdapter.scrape and its LRUCache
  scMaxSize,   \* constructor argument cacheSize
  scTtl,       \* constructor argument cacheTTL
  scNow,       \* Date.now()
  scCache,     \* the Map of the cache, in insertion order
  scCall,      \* the scrape calls in progress, per slot (ctx, page: open handles)
  scCount,     \* number of scrape calls issued so far
  scAcq,       \* number of pages acquired so far (each yields a new result)
  scLast       \* the scrape that has just returned, if nothing happened since

scVars == <<scMaxSize, scTtl, scNow, scCache, scCall, scCount, scAcq,
            scLast>>

VARIABLES
  \* The caches used on their own: LruCache (fetch pool) and LRUCache
  \* (Playwright adapter).  The cache under test keeps its maxSize, ttl, clock
  \* and Map in scMaxSize, scTtl, scNow and scCache.
  lcKind,      \* the class of the cache under test
  lcOps,       \* number of cache operations issued so far
  lcLast       \* the last cache operation and what it returned

lcVars == <<lcKind, lcOps, lcLast>>

VARIABLES
  \* CDPPage and the stale-pending cleanup timer
  cdpPhase,      \* this.ws and the socket's readyState
  cdpConnect,    \* the promise returned by connect()
  cdpHandler,    \* the "open" handler: which enable command it awaits
  cdpMessageId,  \* this.messageId
  cdpPending,    \* the keys of this.pendingCommands
  cdpCalls,      \* every send() so far and the state of its promise
  cdpNow,        \* Date.now()
  cdpMsgs,       \* number of messages handed to handleMessage so far
  cdpLast,       \* the last message handed to handleMessage
  cdpConnects,   \* number of connect() calls so far
  prPending,     \* pendingRequests of the fetch pool: url -> startedAt
  prStarted,     \* number of requests entered into pendingRequests so far
  prNextFire     \* when the cleanup interval fires next

VARIABLES
  \* CDPPage.goto
  gtPc,        \* the goto call: "idle", "navigating", "racing", "resolved", "rejected"
  gtError,     \* the error goto rejected with
  gtTimeout,   \* options.timeout
  gtAwait,     \* id of the Page.navigate call goto awaits
  gtPoll,      \* the check() chain: what it waits for
  gtTimer      \* the timer of the race: state and due time

gtVars == <<gtPc, gtError, gtTimeout, gtAwait, gtPoll, gtTimer>>

cdpVars == <<cdpPhase, cdpConnect, cdpHandler, cdpMessageId, cdpPending, cdpCalls, cdpNow,
             cdpMsgs, cdpLast, cdpConnects, prPending, prStarted, prNextFire>>

VARIABLES
  \* PoolManager: the Map of pools by origin, the pools created, the closeAll call, the pools handed out
  pmPools,
  pmState,
  pmCloseAll,
  pmCloses,
  pmGot

pmVars == <<pmPools, pmState, pmCloseAll, pmCloses, pmGot>>

VARIABLES
  \* getAvailableScrapers: the build, the call's position, its list, the probe answers, the lists returned
  avVariant,
  avPc,
  avList,
  avProbes,
  avReturned

avVars == <<avVariant, avPc, avList, avProbes, avReturned>>

VARIABLES
  \* SemanticCrawlUseCase: the target, the position of execute, its queue and visited set, the entry being scraped, the abort signal, the running flag, the scrape calls made, the errors recorded, the result returned
  crTarget,
  crPc,
  crQueue,
  crVisited,
  crCurrent,
  crAborted,
  crRunning,
  crScraped,
  crErrors,
  crResult

crVars == <<crTarget, crPc, crQueue, crVisited, crCurrent, crAborted, crRunning, crScraped, crErrors, crResult>>

VARIABLES
  \* MemoryStorageAdapter: the Map in insertion order, the set and remove calls made, the last call and its answer
  msData,
  msHistory,
  msLast

msVars == <<msData, msHistory, msLast>>

VARIABLES
  \* MemoryCookieStore: the Map from domain to cookie list in insertion order, the calls made, the last call and its answer
  ckCookies,
  ckCalls,
  ckLast

ckVars == <<ckCookies, ckCalls, ckLast>>

VARIABLES
  \* PlaywrightScraperAdapter: this.browser, the browsers launched, the scrape calls in flight, close(), calls made
  pbBrowser,
  pbLaunched,
  pbCall,
  pbClose,
  pbCalls

pbVars == <<pbBrowser, pbLaunched, pbCall, pbClose, pbCalls>>

vars == <<smVars, mgrVars, batchVars, ucVars, scVars, lcVars, cdpVars, gtVars, pmVars, avVars, crVars, msVars, ckVars, pbVars>>

\* The variables of the other components, left alone by a component's actions
notSm == <<mgrVars, batchVars, ucVars, scVars, lcVars, cdpVars, gtVars, pmVars, avVars, crVars, msVars, ckVars, pbVars>>
notBatch == <<smVars, mgrVars, ucVars, scVars, lcVars, cdpVars, gtVars, pmVars, avVars, crVars, msVars, ckVars, pbVars>>
notUc == <<smVars, mgrVars, batchVars, scVars, lcVars, cdpVars, gtVars, pmVars, avVars, crVars, msVars, ckVars, pbVars>>
notSc == <<smVars, mgrVars, batchVars, ucVars, lcVars, cdpVars, gtVars, pmVars, avVars, crVars, msVars, ckVars, pbVars>>
notLc == <<smVars, mgrVars, batchVars, ucVars, cdpVars, gtVars, pmVars, avVars, crVars, msVars, ckVars, pbVars>>
notCdp == <<smVars, mgrVars, batchVars, ucVars, scVars, lcVars, gtVars, pmVars, avVars, crVars, msVars, ckVars, pbVars>>
notMgr == <<batchVars, ucVars, scVars, lcVars, cdpVars, gtVars, pmVars, avVars, crVars, msVars, ckVars, pbVars>>
notGoto == <<smVars, mgrVars, batchVars, ucVars, scVars, lcVars, pmVars, avVars, crVars, msVars, ckVars, pbVars>>
notPm == <<smVars, mgrVars, batchVars, ucVars, scVars, lcVars, cdpVars, gtVars, avVars, crVars, msVars, ckVars, pbVars>>
notAv == <<smVars, mgrVars, batchVars, ucVars, scVars, lcVars, cdpVars, gtVars, pmVars, crVars, msVars, ckVars, pbVars>>
notCr == <<smVars, mgrVars, batchVars, ucVars, scVars, lcVars, cdpVars, gtVars, pmVars, avVars, msVars, ckVars, pbVars>>
notMs == <<smVars, mgrVars, batchVars, ucVars, scVars, lcVars, cdpVars, gtVars, pmVars, avVars, crVars, ckVars, pbVars>>
notCk == <<smVars, mgrVars, batchVars, ucVars, scVars, lcVars, cdpVars, gtVars, pmVars, avVars, crVars, msVars, pbVars>>
notPb == <<smVars, mgrVars, batchVars, ucVars, scVars, lcVars, cdpVars, gtVars, pmVars, avVars, crVars, msVars, ckVars>>

\* ========================================================================
\* WebActionManager
\* ========================================================================
Profiles == {"p1", "p2"}
Callers == 1..MaxCallers

IdleCall ==
  [op |-> "none", pc |-> "idle", profileId |-> "", cdp |-> FALSE, sid |-> None,
   ctx |-> None, ret |-> None, callNo |-> 0, during |-> 0]

\* The call of another caller that is creating a session for profile p
\* (awaiting launch, attach or the set-up of the new context), if any.
CreatingFor(p, c) ==
  {d \in Callers \ {c} : /\ call[d].op = "get"
                         /\ call[d].profileId = p
                         /\ call[d].pc \in {"launch", "connect", "setup"}}

NewSessionId == Len(sess) + 1
NewContextId == Len(ctxState) + 1

SmInit ==
  /\ sessions = [p \in Profiles |-> None]
  /\ sess = <<>>
  /\ ctxState = <<>>
  /\ call = [c \in Callers |-> IdleCall]
  /\ callCount = 0
  /\ now = 0

\* Mutant: the stamp of the session is left as it is.
Untouched(existing) == sess

\* existing.lastActivity = Date.now()
Touched(existing) == [sess EXCEPT ![existing].lastActivity = now]

\* getOrCreateSession, up to its first await (or its return).  The branch
\* into connectViaCDP repeats the lookup in the same turn of the event loop.
GetOrCreateSession(c, p, useCdp) ==
  /\ call[c].pc = "idle"
  /\ callCount < MaxCalls
  /\ callCount' = callCount + 1
  /\ LET base == [IdleCall EXCEPT !.op = "get", !.profileId = p, !.cdp = useCdp,
                                  !.callNo = callCount + 1,
                                  !.during = IF CreatingFor(p, c) = {} THEN 0
                                             ELSE call[CHOOSE d \in CreatingFor(p, c) :
                                                    \A e \in CreatingFor(p, c) :
                                                      call[d].callNo <= call[e].callNo].callNo]
         existing == sessions[p]
     IN IF existing # None
        THEN /\ sess' = Touched(existing)
             /\ call' = [call EXCEPT ![c] =
                  IF sess[existing].pageClosed
                  THEN [base EXCEPT !.pc = "newPage", !.sid = existing]
                  ELSE [base EXCEPT !.pc = "done", !.sid = existing, !.ret = existing]]
        ELSE /\ sess' = sess
             /\ call' = [call EXCEPT ![c] =
                  [base EXCEPT !.pc = IF useCdp THEN "connect" ELSE "launch"]]
  /\ UNCHANGED notSm
  /\ UNCHANGED <<sessions, ctxState, now>>

\* existing.page = await existing.context.newPage(); return existing
NewPageDone(c) ==
  /\ call[c].pc = "newPage"
  /\ IF ctxState[sess[call[c].sid].context] = "open"
     THEN /\ sess' = [sess EXCEPT ![call[c].sid].pageClosed = FALSE,
                                  ![call[c].sid].pageNo = @ + 1]
          /\ call' = [call EXCEPT ![c].pc = "done", ![c].ret = call[c].sid]
     ELSE /\ sess' = sess
          /\ call' = [call EXCEPT ![c].pc = "failed"]
  /\ UNCHANGED notSm
  /\ UNCHANGED <<sessions, ctxState, callCount, now>>

\* await chromium.launchPersistentContext(...) / await chromium.connectOverCDP(...)
\* resolves with a new context handle, or rejects.
ContextReady(c) ==
  /\ call[c].pc \in {"launch", "connect"}
  /\ \/ /\ ctxState' = Append(ctxState, "open")
        /\ call' = [call EXCEPT ![c].pc = "setup", ![c].ctx = NewContextId]
     \/ /\ ctxState' = ctxState
        /\ call' = [call EXCEPT ![c].pc = "failed"]
  /\ UNCHANGED notSm
  /\ UNCHANGED <<sessions, sess, callCount, now>>

\* applyStealthToContext, first page, viewport and cursor are awaited, then the
\* session is built and stored: this.sessions.set(profileId, session).
NewSession(c) ==
  [profileId |-> call[c].profileId, context |-> call[c].ctx, pageClosed |-> FALSE,
   pageNo |-> 1, createdAt |-> now, lastActivity |-> now, cdpBrowser |-> call[c].cdp]

SessionsSet(c) == [sessions EXCEPT ![call[c].profileId] = NewSessionId]

SetupDone(c) ==
  /\ call[c].pc = "setup"
  /\ \/ /\ sess' = Append(sess, NewSession(c))
        /\ sessions' = SessionsSet(c)
        /\ call' = [call EXCEPT ![c].pc = "done", ![c].sid = NewSessionId,
                                ![c].ret = NewSessionId]
     \/ \* applyStealthToContext / newPage / setViewportSize rejects
        /\ call' = [call EXCEPT ![c].pc = "failed"]
        /\ UNCHANGED <<sess, sessions>>
  /\ UNCHANGED notSm
  /\ UNCHANGED <<ctxState, callCount, now>>

\* closeSession, up to its await (or its return false).
CloseSession(c, p) ==
  /\ call[c].pc = "idle"
  /\ callCount < MaxCalls
  /\ callCount' = callCount + 1
  /\ call' = [call EXCEPT ![c] =
       IF sessions[p] = None
       THEN [IdleCall EXCEPT !.op = "close", !.profileId = p, !.pc = "done",
                             !.callNo = callCount + 1]
       ELSE [IdleCall EXCEPT !.op = "close", !.profileId = p, !.pc = "closing",
                             !.sid = sessions[p], !.callNo = callCount + 1]]
  /\ UNCHANGED notSm
  /\ UNCHANGED <<sessions, sess, ctxState, now>>

\* await session.cdpBrowser.close() or session.context.close() (errors are
\* swallowed), then this.sessions.delete(profileId).
ClosedState(s) == IF sess[s].cdpBrowser THEN "detached" ELSE "closed"

CloseSessionDone(c) ==
  /\ call[c].pc = "closing"
  /\ ctxState' = [ctxState EXCEPT ![sess[call[c].sid].context] =
                    IF @ = "open" THEN ClosedState(call[c].sid) ELSE @]
  /\ sessions' = [sessions EXCEPT ![call[c].profileId] = None]
  /\ call' = [call EXCEPT ![c].pc = "done", ![c].ret = call[c].sid]
  /\ UNCHANGED notSm
  /\ UNCHANGED <<sess, callCount, now>>

\* The caller consumes the settled promise.
Return(c) ==
  /\ call[c].pc \in {"done", "failed"}
  /\ call' = [call EXCEPT ![c] = IdleCall]
  /\ UNCHANGED notSm
  /\ UNCHANGED <<sessions, sess, ctxState, callCount, now>>

\* The page of a session is closed from outside the manager.
PageClosed(s) ==
  /\ s \in 1..Len(sess)
  /\ ~sess[s].pageClosed
  /\ sess' = [sess EXCEPT ![s].pageClosed = TRUE]
  /\ UNCHANGED notSm
  /\ UNCHANGED <<sessions, ctxState, call, callCount, now>>

Tick ==
  /\ now < MaxTicks * CLEANUP_INTERVAL_MS
  /\ now' = now + CLEANUP_INTERVAL_MS
  /\ UNCHANGED notSm
  /\ UNCHANGED <<sessions, sess, ctxState, call, callCount>>

SmNext ==
  \/ \E c \in Callers, p \in Profiles, useCdp \in BOOLEAN : GetOrCreateSession(c, p, useCdp)
  \/ \E c \in Callers : NewPageDone(c)
  \/ \E c \in Callers : ContextReady(c)
  \/ \E c \in Callers : SetupDone(c)
  \/ \E c \in Callers, p \in Profiles : CloseSession(c, p)
  \/ \E c \in Callers : CloseSessionDone(c)
  \/ \E c \in Callers : Return(c)
  \/ \E s \in 1..Len(sess) : PageClosed(s)
  \/ Tick


\* C1: two overlapping getOrCreateSession calls for the same profileId never
\* create two Sessions: a call issued while another call was still creating
\* the Session of that profile returns the Session that call created.
C1_OverlappingCallsShareSession ==
  \A c \in Callers, d \in Callers :
    (/\ call[c].op = "get" /\ call[d].op = "get"
     /\ call[c].during # 0 /\ call[c].during = call[d].callNo
     /\ call[c].pc = "done" /\ call[d].pc = "done")
    => call[c].ret = call[d].ret


\* A call of getOrCreateSession that found a session under its profileId
Reusing(c) == call[c].op = "get" /\ call[c].sid # None /\ call[c].ctx = None
FoundExisting(c) == call[c].pc = "idle" /\ Reusing(c)'
SameEntry(s) ==
  /\ sessions' = sessions
  /\ ctxState' = ctxState
  /\ Len(sess') = Len(sess)
  /\ sess'[s].context = sess[s].context
  /\ sess'[s].createdAt = sess[s].createdAt
  /\ sess'[s].profileId = sess[s].profileId

\* C25: getOrCreateSession on a profileId that has a session launches
\* nothing and returns that session with lastActivity refreshed; if its page
\* was closed it gets a new page on the same context; the map entry, the
\* context and createdAt of the session are as before.
C25_ReuseKeepsSession ==
  /\ [](\A c \in Callers : Reusing(c) =>
          /\ call[c].pc \in {"newPage", "done", "failed"}
          /\ call[c].pc = "done" => call[c].ret = call[c].sid)
  /\ [][\A c \in Callers : FoundExisting(c) =>
          /\ call'[c].sid = sessions[call'[c].profileId]
          /\ SameEntry(call'[c].sid)
          /\ sess'[call'[c].sid].lastActivity = now
          /\ sess'[call'[c].sid].pageNo = sess[call'[c].sid].pageNo
          /\ call'[c].pc = IF sess[call'[c].sid].pageClosed THEN "newPage" ELSE "done"]_vars
  /\ [][\A c \in Callers : (call[c].pc = "newPage" /\ call'[c].pc = "done") =>
          /\ SameEntry(call[c].sid)
          /\ ~sess'[call[c].sid].pageClosed
          /\ sess'[call[c].sid].pageNo = sess[call[c].sid].pageNo + 1
          /\ sess'[call[c].sid].lastActivity = sess[call[c].sid].lastActivity]_vars

\* A session whose page had been closed was asked for again, later than it
\* was created, and returned with a new page.
C25_Witness ==
  \E c \in Callers :
    /\ Reusing(c) /\ call[c].pc = "done"
    /\ sessions[call[c].profileId] = call[c].ret
    /\ sess[call[c].ret].pageNo = 2
    /\ sess[call[c].ret].lastActivity > sess[call[c].ret].createdAt

\* ------------------------------------------------------------------------
\* start, stop and cleanupIdle
\* ------------------------------------------------------------------------
ProfileSeq == <<"p1", "p2">>
SessionKinds == {"none", "launch", "cdp"}

NoTimerSet == [on |-> FALSE, due |-> 0]
NoScan == [pc |-> "idle", expired |-> <<>>, sid |-> None]
NoStop == [pc |-> "idle", closing |-> {}]

MgrIdle ==
  /\ mgrTimer = NoTimerSet
  /\ mgrCleanup = NoScan
  /\ mgrStop = NoStop
  /\ mgrEvicted = {}

\* A manager that has been in use: some profiles have a session, created at
\* time 0 by launch or by attaching, and not used since; one idle timeout
\* has passed.
Present(kinds) == SelectSeq(ProfileSeq, LAMBDA p : kinds[p] # "none")

InUse(kinds) ==
  /\ sess = [k \in 1..Len(Present(kinds)) |->
               [profileId |-> Present(kinds)[k], context |-> k, pageClosed |-> FALSE,
                pageNo |-> 1, createdAt |-> 0, lastActivity |-> 0,
                cdpBrowser |-> kinds[Present(kinds)[k]] = "cdp"]]
  /\ sessions = [p \in Profiles |->
                   IF kinds[p] = "none" THEN None
                   ELSE CHOOSE k \in 1..Len(Present(kinds)) : Present(kinds)[k] = p]
  /\ ctxState = [k \in 1..Len(Present(kinds)) |-> "open"]
  /\ call = [c \in Callers |-> IdleCall]
  /\ callCount = 0
  /\ now = SESSION_IDLE_TIMEOUT_MS

MgrInit ==
  /\ \E kinds \in [Profiles -> SessionKinds] : InUse(kinds)
  /\ MgrIdle

\* start(): if (this.cleanupTimer) return; this.cleanupTimer = setInterval(...)
Start ==
  /\ ~mgrTimer.on
  /\ mgrStop.pc = "idle"
  /\ mgrTimer' = [on |-> TRUE, due |-> now + CLEANUP_INTERVAL_MS]
  /\ UNCHANGED notMgr
  /\ UNCHANGED smVars
  /\ UNCHANGED <<mgrCleanup, mgrStop, mgrEvicted>>

\* now - session.lastActivity > SESSION_IDLE_TIMEOUT_MS
Idle(s) == now - sess[s].lastActivity > SESSION_IDLE_TIMEOUT_MS

\* The ids pushed to expired, in the iteration order of the Map
ExpiredIds == {p \in Profiles : sessions[p] # None /\ Idle(sessions[p])}

InMapOrder(S) ==
  CHOOSE seq \in [1..Cardinality(S) -> S] :
    \A i, j \in 1..Cardinality(S) : i < j => sessions[seq[i]] < sessions[seq[j]]

\* The ids of the list from the first one that still has a session:
\* closeSession returns false at once for an id without session.
RECURSIVE DropAbsent(_, _)
DropAbsent(ids, map) ==
  IF ids = <<>> THEN <<>>
  ELSE IF map[Head(ids)] # None THEN ids
  ELSE DropAbsent(Tail(ids), map)

\* for (const id of expired) await this.closeSession(id), up to the await
\* inside closeSession: the close of the next session on the list is issued.
CloseNext(ids, map) ==
  LET rest == DropAbsent(ids, map)
  IN IF rest = <<>>
     THEN /\ mgrCleanup' = NoScan
          /\ UNCHANGED mgrEvicted
     ELSE /\ mgrCleanup' = [pc |-> "closing", expired |-> rest, sid |-> map[Head(rest)]]
          /\ mgrEvicted' = mgrEvicted \cup
               {[sid |-> map[Head(rest)], idle |-> now - sess[map[Head(rest)]].lastActivity]}

\* The interval fires: cleanupIdle() collects the expired ids and calls
\* closeSession for the first.  A scan still running is left to finish first.
CleanupIdle ==
  /\ mgrTimer.on
  /\ now >= mgrTimer.due
  /\ mgrCleanup.pc = "idle"
  /\ mgrTimer' = [mgrTimer EXCEPT !.due = @ + CLEANUP_INTERVAL_MS]
  /\ CloseNext(InMapOrder(ExpiredIds), sessions)
  /\ UNCHANGED notMgr
  /\ UNCHANGED smVars
  /\ UNCHANGED mgrStop

\* closeSession after its await: this.sessions.delete(profileId); the loop
\* of cleanupIdle goes on in the same turn.
CleanupClosed ==
  /\ mgrCleanup.pc = "closing"
  /\ ctxState' = [ctxState EXCEPT ![sess[mgrCleanup.sid].context] =
                    IF @ = "open" THEN ClosedState(mgrCleanup.sid) ELSE @]
  /\ sessions' = [sessions EXCEPT ![Head(mgrCleanup.expired)] = None]
  /\ CloseNext(Tail(mgrCleanup.expired),
               [sessions EXCEPT ![Head(mgrCleanup.expired)] = None])
  /\ UNCHANGED notMgr
  /\ UNCHANGED <<sess, call, callCount, now>>
  /\ UNCHANGED <<mgrTimer, mgrStop>>

\* stop() up to await Promise.allSettled(closing): the timer is cleared and
\* context.close() is called on every session in the map.
Stop ==
  /\ mgrStop.pc = "idle"
  /\ mgrTimer' = NoTimerSet
  /\ mgrStop' = [pc |-> "closing", closing |-> {sessions[p] : p \in Profiles} \ {None}]
  /\ UNCHANGED notMgr
  /\ UNCHANGED smVars
  /\ UNCHANGED <<mgrCleanup, mgrEvicted>>

\* The closes are settled (their errors swallowed): this.sessions.clear()
StopDone ==
  /\ mgrStop.pc = "closing"
  /\ ctxState' = [k \in 1..Len(ctxState) |->
                    IF /\ \E s \in mgrStop.closing : sess[s].context = k
                       /\ ctxState[k] = "open"
                    THEN "closed" ELSE ctxState[k]]
  /\ sessions' = [p \in Profiles |-> None]
  /\ mgrStop' = [mgrStop EXCEPT !.pc = "done"]
  /\ UNCHANGED notMgr
  /\ UNCHANGED <<sess, call, callCount, now>>
  /\ UNCHANGED <<mgrTimer, mgrCleanup, mgrEvicted>>

\* Date.now() advances by one cleanup interval, but not past a due interval
MgrTick ==
  /\ now < SESSION_IDLE_TIMEOUT_MS + MaxTicks * CLEANUP_INTERVAL_MS
  /\ ~(mgrTimer.on /\ now >= mgrTimer.due)
  /\ now' = now + CLEANUP_INTERVAL_MS
  /\ UNCHANGED notSm
  /\ UNCHANGED <<sessions, sess, ctxState, call, callCount>>

MgrNext ==
  \/ \E c \in Callers, p \in Profiles, useCdp \in BOOLEAN : GetOrCreateSession(c, p, useCdp)
  \/ \E c \in Callers : ContextReady(c)
  \/ \E c \in Callers : SetupDone(c)
  \/ \E c \in Callers, p \in Profiles : CloseSession(c, p)
  \/ \E c \in Callers : CloseSessionDone(c)
  \/ \E c \in Callers : Return(c)
  \/ Start
  \/ CleanupIdle
  \/ CleanupClosed
  \/ Stop
  \/ StopDone
  \/ MgrTick


\* A manager in use: sessions are asked for again, lose their page, are closed
ReuseNext ==
  \/ \E c \in Callers, p \in Profiles, useCdp \in BOOLEAN : GetOrCreateSession(c, p, useCdp)
  \/ \E c \in Callers : NewPageDone(c)
  \/ \E c \in Callers, p \in Profiles : CloseSession(c, p)
  \/ \E c \in Callers : CloseSessionDone(c)
  \/ \E s \in 1..Len(sess) : PageClosed(s)

\* C22: idle eviction closes a session only when its idle time exceeds the
\* threshold at the close, also when the session is used again while the scan
\* that found it expired is still closing other sessions.
C22_EvictsOnlyIdleSessions ==
  \A e \in mgrEvicted : e.idle > SESSION_IDLE_TIMEOUT_MS

\* The browser contexts of attach-mode sessions: the user's own browser
AttachedContexts == {sess[s].context : s \in {t \in 1..Len(sess) : sess[t].cdpBrowser}}

\* C23: no teardown path closes the browser context of an attach-mode
\* session; such a session is only detached.
C23_AttachedContextNeverClosed ==
  \A k \in AttachedContexts : ctxState[k] # "closed"

\* The contexts the manager launched: those of launch-mode sessions and of
\* launch-mode creations that have their context and are setting it up
LaunchedContexts ==
  {sess[s].context : s \in {t \in 1..Len(sess) : ~sess[t].cdpBrowser}}
    \cup {call[c].ctx : c \in {d \in Callers : call[d].pc = "setup" /\ ~call[d].cdp}}

StopReturns == mgrStop.pc = "closing" /\ mgrStop'.pc = "done"

\* C24: when stop() returns the cleanup timer is halted, the session map is
\* empty and no context the manager launched is open, sessions whose creation
\* overlapped with stop() included.
C24_StopLeavesNothingOpen ==
  [][StopReturns =>
       /\ ~mgrTimer'.on
       /\ \A p \in Profiles : sessions'[p] = None
       /\ \A k \in LaunchedContexts' : ctxState'[k] # "open"]_vars

\* The sessions whose close has been issued and is still awaited: by
\* closeSession, by the closeSession of an idle scan, or by stop()
BeingClosed ==
  {call[c].sid : c \in {d \in Callers : call[d].op = "close" /\ call[d].pc = "closing"}}
    \cup (IF mgrCleanup.pc = "closing" THEN {mgrCleanup.sid} ELSE {})
    \cup (IF mgrStop.pc = "closing" THEN mgrStop.closing ELSE {})

GetReturns(c) == call[c].pc # "done" /\ call'[c].pc = "done" /\ call'[c].op = "get"

ContextOpen(s) == ctxState[sess[s].context] = "open"

\* C35: getOrCreateSession never returns a session whose browser context is
\* being closed or has been closed, also when closeSession, idle eviction or
\* stop() is awaiting the close of that session; and a session is in the map
\* only while its context is open.
C35_NeverHandsOutClosingSession ==
  /\ [][\A c \in Callers : GetReturns(c) =>
          /\ call'[c].ret \notin BeingClosed'
          /\ ctxState'[sess'[call'[c].ret].context] = "open"]_vars
  /\ [](\A p \in Profiles : sessions[p] # None => ContextOpen(sessions[p]))

\* ========================================================================
\* Batches: PlaywrightScraperAdapter.scrapeMany, SearchAdapter.searchParallel
\* and the retry helper scrapeWithRetry run under the same window loop
\* ========================================================================
Targets == {"a", "b", "c"}
BatchModes == {"scrapeMany", "searchParallel", "scrapeWithRetry"}

NoError == [kind |-> "none", task |-> 0, attempt |-> 0]
AbortError == [kind |-> "aborted", task |-> 0, attempt |-> 0]
BackendError(k, n) == [kind |-> "backend", task |-> k, attempt |-> n]

\* The target lists of up to MaxUrls entries, duplicates included.  Targets are
\* interchangeable names, so only lists that introduce them in the order
\* a, b, c are enumerated (every other list is a renaming of one of these).
TargetNo(u) == CASE u = "a" -> 1 [] u = "b" -> 2 [] OTHER -> 3

InOrderOfFirstUse(seq) ==
  \A k \in 1..Len(seq) :
    \/ TargetNo(seq[k]) = 1
    \/ \E j \in 1..(k - 1) : TargetNo(seq[j]) = TargetNo(seq[k]) - 1

UrlLists == {seq \in UNION {[1..n -> Targets] : n \in 0..MaxUrls} : InOrderOfFirstUse(seq)}

NoTask ==
  [pc |-> "none", attempt |-> 0, lastError |-> NoError, thrown |-> NoError,
   calls |-> 0, backend |-> 0, ok |-> FALSE]

Min(x, y) == IF x < y THEN x ELSE y

\* urls.slice(i, i + concurrency), as indexes into urls (i is 0-based)
Window(i) == (i + 1)..Min(i + concurrency, Len(urls))

InFlight == {k \in 1..Len(urls) : task[k].pc = "inflight"}

BatchIdle ==
  /\ bMode = "scrapeMany"
  /\ urls = <<>>
  /\ concurrency = 1
  /\ retries = 0
  /\ useCache = FALSE
  /\ aborted = FALSE
  /\ abortedAtCall = FALSE
  /\ bpc = "init"
  /\ bi = 0
  /\ task = <<>>
  /\ results = {}
  /\ searchResults = <<>>
  /\ failed = [t \in Targets |-> NoError]
  /\ bCache = {}
  /\ okSeen = {}
  /\ failSeen = {}
  /\ ucReturn = [results |-> {}, failed |-> {}]

BatchInit ==
  /\ bMode \in BatchModes
  /\ urls \in UrlLists
  /\ concurrency \in 1..MaxConcurrency
  /\ retries \in 0..MaxRetries
  /\ useCache \in (IF bMode = "scrapeMany" THEN BOOLEAN ELSE {FALSE})
  /\ aborted \in BOOLEAN
  /\ abortedAtCall = FALSE
  /\ bpc = "init"
  /\ bi = 0
  /\ task = [k \in 1..Len(urls) |-> NoTask]
  /\ results = {}
  /\ searchResults = <<>>
  /\ failed = [t \in Targets |-> NoError]
  /\ bCache = {}
  /\ okSeen = {}
  /\ failSeen = {}
  /\ ucReturn = [results |-> {}, failed |-> {}]

\* What a call of the scrape function does before its first await:
\*   scrape(): cache lookup, then the signal check, then the browser work;
\*   search(): scraper.scrape(..., cache: false, signal);
\*   scrapeWithRetry: the loop checks the signal itself, then calls scrapeFn.
ScrapeEntry(url) ==
  IF bMode = "scrapeWithRetry" THEN "submit"
  ELSE IF bMode = "scrapeMany" /\ useCache /\ url \in bCache THEN "hit"
  ELSE IF aborted THEN "aborted"
  ELSE "submit"

\* if (ctx.signal?.aborted) break;   (scrapeWithRetry only)
LoopBreaks == bMode = "scrapeWithRetry" /\ aborted

\* The catch block of the retry loop: remember the error, sleep if attempts remain.
\* Mutant: only the first error is remembered (lastError ??= error).
KeepFirstError(t, e) == IF t.lastError = NoError THEN e ELSE t.lastError

LastErrorAfter(t, e) == e

\* Mutant: the retry loop runs `attempt < retries` instead of `attempt <= retries`.
AfterThrowOffByOne(t, e) ==
  [t EXCEPT !.lastError = LastErrorAfter(t, e), !.thrown = e,
            !.pc = IF t.attempt + 1 < retries THEN "sleep" ELSE "settled"]

AfterThrow(t, e) ==
  [t EXCEPT !.lastError = LastErrorAfter(t, e), !.thrown = e,
            !.pc = IF t.attempt < retries THEN "sleep" ELSE "settled"]

\* One iteration of the retry loop of task t, from the loop test to its first await.
BeginAttempt(t, url) ==
  IF LoopBreaks THEN [t EXCEPT !.pc = "settled"]
  ELSE LET e == ScrapeEntry(url)
           u == [t EXCEPT !.calls = @ + 1]
       IN CASE e = "hit" -> [u EXCEPT !.pc = "settled", !.ok = TRUE]
            [] e = "aborted" -> AfterThrow(u, AbortError)
            [] OTHER -> [u EXCEPT !.pc = "inflight", !.backend = @ + 1]

\* if (lastError) failed.set(url, lastError), for a task that left its loop
FailedAfter(f, t, url) ==
  IF t.pc = "settled" /\ ~t.ok /\ t.lastError # NoError
  THEN [f EXCEPT ![url] = t.lastError]
  ELSE f

\* The top of the window loop at index i: the loop test, the signal check,
\* then batch.map(async ...) starts every member of the window.
\* Mutant: the window loop does not look at the signal.
SignalIgnored == FALSE

SignalStops == aborted

LoopTop(i) ==
  /\ bi' = i
  /\ IF i >= Len(urls) \/ SignalStops
     THEN /\ bpc' = "done"
          /\ UNCHANGED <<task, results>>
     ELSE /\ bpc' = "window"
          /\ task' = [k \in 1..Len(urls) |->
                        IF k \in Window(i) THEN BeginAttempt(task[k], urls[k]) ELSE task[k]]
          /\ results' = results \cup
                        {urls[k] : k \in {j \in Window(i) : ScrapeEntry(urls[j]) = "hit"}}

\* scrapeMany(urls, options) / searchParallel(queries, options) is called.
StartBatch ==
  /\ bpc = "init"
  /\ abortedAtCall' = aborted
  /\ LoopTop(0)
  /\ UNCHANGED notBatch
  /\ UNCHANGED <<bMode, urls, concurrency, retries, useCache, aborted, searchResults,
                 failed, bCache, okSeen, failSeen, ucReturn>>

\* The backend call of task k settles: a page (cached if caching is on) or an error.
AttemptSucceeds(k) ==
  /\ bpc = "window"
  /\ task[k].pc = "inflight"
  /\ task' = [task EXCEPT ![k].pc = "settled", ![k].ok = TRUE]
  /\ okSeen' = okSeen \cup {urls[k]}
  /\ bCache' = IF bMode = "scrapeMany" /\ useCache THEN bCache \cup {urls[k]} ELSE bCache
  /\ IF bMode = "searchParallel"
     THEN searchResults' = Append(searchResults, urls[k]) /\ results' = results
     ELSE results' = results \cup {urls[k]} /\ searchResults' = searchResults
  /\ UNCHANGED notBatch
  /\ UNCHANGED <<bMode, urls, concurrency, retries, useCache, aborted, abortedAtCall,
                 bpc, bi, failed, failSeen, ucReturn>>

AttemptFails(k) ==
  /\ bpc = "window"
  /\ task[k].pc = "inflight"
  /\ LET t == AfterThrow(task[k], BackendError(k, task[k].attempt))
     IN /\ task' = [task EXCEPT ![k] = t]
        /\ failed' = FailedAfter(failed, t, urls[k])
  /\ failSeen' = failSeen \cup {urls[k]}
  /\ UNCHANGED notBatch
  /\ UNCHANGED <<bMode, urls, concurrency, retries, useCache, aborted, abortedAtCall,
                 bpc, bi, results, searchResults, bCache, okSeen, ucReturn>>

\* The retry delay of task k elapses: attempt++ and the next iteration begins.
Retry(k) ==
  /\ bpc = "window"
  /\ task[k].pc = "sleep"
  /\ LET t == BeginAttempt([task[k] EXCEPT !.attempt = @ + 1], urls[k])
     IN /\ task' = [task EXCEPT ![k] = t]
        /\ failed' = FailedAfter(failed, t, urls[k])
        /\ results' = IF t.ok THEN results \cup {urls[k]} ELSE results
  /\ UNCHANGED notBatch
  /\ UNCHANGED <<bMode, urls, concurrency, retries, useCache, aborted, abortedAtCall,
                 bpc, bi, searchResults, bCache, okSeen, failSeen, ucReturn>>

\* await Promise.all(promises): resolves when every member has resolved and
\* rejects as soon as one member rejects.
\* Mutant: the window advances when the first member settles (Promise.race).
AnySettled(i) == \E k \in Window(i) : task[k].pc = "settled"

WindowSettled(i) == \A k \in Window(i) : task[k].pc = "settled"

PromiseAll ==
  /\ bpc = "window"
  /\ IF \E k \in Window(bi) : task[k].pc = "rejected"
     THEN bpc' = "rejected"
     ELSE /\ WindowSettled(bi)
          /\ bpc' = IF bi + concurrency < Len(urls) THEN "delay" ELSE "done"
  /\ UNCHANGED notBatch
  /\ UNCHANGED <<bMode, urls, concurrency, retries, useCache, aborted, abortedAtCall,
                 bi, task, results, searchResults, failed, bCache, okSeen, failSeen,
                 ucReturn>>

\* The delay between windows elapses: i += concurrency and the loop continues.
NextWindow ==
  /\ bpc = "delay"
  /\ LoopTop(bi + concurrency)
  /\ UNCHANGED notBatch
  /\ UNCHANGED <<bMode, urls, concurrency, retries, useCache, aborted, abortedAtCall,
                 searchResults, failed, bCache, okSeen, failSeen, ucReturn>>

\* The caller aborts the shared signal.
Abort ==
  /\ ~aborted
  /\ bpc # "returned"
  /\ aborted' = TRUE
  /\ UNCHANGED notBatch
  /\ UNCHANGED <<bMode, urls, concurrency, retries, useCache, abortedAtCall, bpc, bi,
                 task, results, searchResults, failed, bCache, okSeen, failSeen, ucReturn>>

\* ScrapeUseCase.executeMany / SearchUseCase.executeMany: return result.results
ReportedTargets ==
  IF bMode = "searchParallel" THEN {searchResults[n] : n \in 1..Len(searchResults)}
  ELSE results

\* The value of `result.results`: the failed map of the batch is not part of it.
ResultOnly(batch) == [results |-> batch.results, failed |-> {}]

ExecuteManyReturn ==
  /\ bpc = "done"
  /\ bpc' = "returned"
  /\ ucReturn' = ResultOnly([results |-> ReportedTargets,
                             failed |-> {u \in Targets : failed[u] # NoError}])
  /\ UNCHANGED notBatch
  /\ UNCHANGED <<bMode, urls, concurrency, retries, useCache, aborted, abortedAtCall,
                 bi, task, results, searchResults, failed, bCache, okSeen, failSeen>>

BatchNext ==
  \/ StartBatch
  \/ \E k \in 1..Len(urls) : AttemptSucceeds(k)
  \/ \E k \in 1..Len(urls) : AttemptFails(k)
  \/ \E k \in 1..Len(urls) : Retry(k)
  \/ PromiseAll
  \/ NextWindow
  \/ Abort
  \/ ExecuteManyReturn

\* ------------------------------------------------------------------------
\* Claims about batches
\* ------------------------------------------------------------------------
BatchOver == bpc \in {"done", "returned"}
Started(k) == task[k].pc # "none"
Distinct(seq) == \A j, k \in 1..Len(seq) : seq[j] = seq[k] => j = k
InResults(u) == u \in ReportedTargets
InFailed(u) == failed[u] # NoError

\* C2: when a batch completes, every target of a started window is in
\* exactly one of results and failed, and only targets of windows that were
\* not started because of cancellation are in neither.
C2_ExactlyOneOfResultsFailed ==
  BatchOver =>
    \A k \in 1..Len(urls) :
      /\ Started(k) => (InResults(urls[k]) # InFailed(urls[k]))
      /\ (~InResults(urls[k]) /\ ~InFailed(urls[k])) => (~Started(k) /\ aborted)

\* C3: distinct targets, no cancellation, backend outcome fixed per target:
\* failed holds exactly the always-failing targets, results exactly the
\* others; a failing target is attempted retries + 1 times, a succeeding
\* target once.
FixedOutcomes == okSeen \cap failSeen = {}

C3_FixedBackendPartition ==
  (BatchOver /\ Distinct(urls) /\ ~aborted /\ FixedOutcomes) =>
    /\ {u \in Targets : InFailed(u)} = failSeen
    /\ ReportedTargets = {urls[k] : k \in 1..Len(urls)} \ failSeen
    /\ \A k \in 1..Len(urls) :
         task[k].calls = IF urls[k] \in failSeen THEN retries + 1 ELSE 1

C3_Witness ==
  /\ BatchOver /\ Distinct(urls) /\ ~aborted /\ FixedOutcomes
  /\ Len(urls) = 3 /\ concurrency = 2 /\ retries = 1
  /\ Cardinality(failSeen) = 2 /\ okSeen # {}

\* C4: if the signal is already aborted when the batch is called, no window
\* starts, the backend is never invoked and results and failed stay empty.
C4_PreAbortedDoesNothing ==
  (abortedAtCall /\ bpc # "init") =>
    /\ \A k \in 1..Len(urls) : task[k] = NoTask
    /\ results = {} /\ searchResults = <<>>
    /\ \A u \in Targets : ~InFailed(u)
    /\ bpc \in {"done", "returned"}

C4_Witness == abortedAtCall /\ bpc = "done" /\ Len(urls) >= 2

\* C5: once the signal is aborted during a batch, no further attempt is
\* started (no new window, no retry of a target that already failed); the
\* attempts already submitted run to completion and their outcome is recorded.
C5_NoAttemptAfterAbort ==
  [][aborted =>
       \A k \in 1..Len(urls) :
         /\ task'[k].calls = task[k].calls
         /\ (task[k].pc = "inflight" /\ task'[k].pc = "settled") =>
              \/ task'[k].ok /\ urls[k] \in ReportedTargets'
              \/ ~task'[k].ok /\ failed'[urls[k]] = task'[k].thrown]_vars

\* No backend call is submitted after the abort (what the code does ensure).
NoBackendCallAfterAbort ==
  [][aborted => \A k \in 1..Len(urls) : task'[k].backend = task[k].backend]_vars

\* C6: targets are processed in consecutive windows of size concurrency; the
\* members of a window start together, no target of a later window starts
\* before every target of the earlier windows has settled, and the number
\* of in-flight backend calls never exceeds concurrency.
WindowOf(k) == (k - 1) \div concurrency

C6_WindowsInSequence ==
  /\ Cardinality(InFlight) <= concurrency
  /\ \A j, k \in 1..Len(urls) :
       /\ (WindowOf(j) = WindowOf(k)) => (Started(j) <=> Started(k))
       /\ (WindowOf(j) < WindowOf(k) /\ Started(k)) => task[j].pc = "settled"

C6_Witness ==
  /\ concurrency = 2 /\ retries = 1 /\ Len(urls) = 3
  /\ task[1].calls = 2 /\ task[2].pc = "settled"
  /\ InFlight = {3}

\* C7: a batch call never rejects because an attempt failed, and a target
\* whose retries + 1 attempts all fail is recorded in failed with the error
\* of its final attempt.
FailsForGood(k) ==
  /\ task[k].pc # "settled" /\ task'[k].pc = "settled"
  /\ ~task'[k].ok /\ task'[k].calls = retries + 1

C7_FailuresRecordedNotRaised ==
  /\ [](bpc # "rejected" /\ \A k \in 1..Len(urls) : task[k].pc # "rejected")
  /\ [][\A k \in 1..Len(urls) :
          FailsForGood(k) => /\ task'[k].thrown # NoError
                             /\ failed'[urls[k]] = task'[k].thrown]_vars

C7_Witness ==
  /\ retries = 1 /\ BatchOver
  /\ \E k \in 1..Len(urls) :
       /\ task[k].pc = "settled" /\ ~task[k].ok /\ task[k].calls = 2
       /\ failed[urls[k]] = BackendError(k, 1)

\* C8: a batch call through the use-case API never silently drops a target:
\* for a batch that ran to completion, every target whose attempts all
\* failed is reported to the caller in a failure map.
C8_FailedTargetsReported ==
  (bpc = "returned" /\ ~aborted) =>
    \A k \in 1..Len(urls) :
      (Started(k) /\ ~InResults(urls[k])) => urls[k] \in ucReturn.failed


\* ========================================================================
\* ScrapeUseCase.execute: backend selection and fallback
\* ========================================================================
WaitPolicies == {"unset", "load", "networkidle"}

UseCaseOptions ==
  [preferBrowser : BOOLEAN, waitFor : WaitPolicies, useHttp2 : BOOLEAN,
   fallbackToFetch : BOOLEAN]

\* for (const scraper of [this.browserScraper, this.playwrightScraper]); the
\* basic build knows the Playwright scraper only.
BrowserChain ==
  IF ucVariant = "full" THEN <<"browser", "playwright">> ELSE <<"playwright">>

\* const httpScraper = useHttp2 ? this.undiciScraper : this.fetchScraper
HttpScraper ==
  IF ucVariant = "full" /\ ucOpts.useHttp2 THEN "undici" ELSE "fetch"

\* Mutant: only preferBrowser asks for a browser.
PrefersBrowser == ucOpts.preferBrowser

\* const needsBrowser = preferBrowser || waitFor === "networkidle"
NeedsBrowser == ucOpts.preferBrowser \/ ucOpts.waitFor = "networkidle"

NoOutcome == [kind |-> "pending", source |-> "none"]

UcIdle ==
  /\ ucVariant = "full"
  /\ ucOpts = [preferBrowser |-> FALSE, waitFor |-> "unset", useHttp2 |-> TRUE,
               fallbackToFetch |-> TRUE]
  /\ ucPc = "init"
  /\ ucIdx = 0
  /\ ucLog = <<>>
  /\ ucOutcome = NoOutcome

UcInit ==
  /\ ucVariant \in {"full", "basic"}
  /\ ucOpts \in UseCaseOptions
  /\ ucPc = "init"
  /\ ucIdx = 0
  /\ ucLog = <<>>
  /\ ucOutcome = NoOutcome

Logged(backend, op, outcome) ==
  Append(ucLog, [backend |-> backend, op |-> op, outcome |-> outcome])

\* execute(url, options) is called.
Execute ==
  /\ ucPc = "init"
  /\ IF NeedsBrowser THEN ucPc' = "probe" /\ ucIdx' = 1
                     ELSE ucPc' = "http" /\ ucIdx' = 0
  /\ UNCHANGED notUc
  /\ UNCHANGED <<ucVariant, ucOpts, ucLog, ucOutcome>>

\* Mutant: without fallbackToFetch an unavailable backend ends the call.
StopsWithoutFallback ==
  IF ~ucOpts.fallbackToFetch
  THEN ucPc' = "failed" /\ ucIdx' = ucIdx /\ ucOutcome' = [kind |-> "error", source |-> "none"]
  ELSE IF ucIdx < Len(BrowserChain)
  THEN ucPc' = "probe" /\ ucIdx' = ucIdx + 1 /\ ucOutcome' = ucOutcome
  ELSE ucPc' = "http" /\ ucIdx' = ucIdx /\ ucOutcome' = ucOutcome

\* The loop moves on to the next browser-class scraper, or leaves for HTTP.
NextScraper ==
  IF ucIdx < Len(BrowserChain)
  THEN ucPc' = "probe" /\ ucIdx' = ucIdx + 1 /\ ucOutcome' = ucOutcome
  ELSE ucPc' = "http" /\ ucIdx' = ucIdx /\ ucOutcome' = ucOutcome

\* Mutant: the catch block swallows the error whatever the flag says.
SwallowsAlways == FALSE

\* catch (error) { if (!fallbackToFetch) throw error; }
Propagates == ~ucOpts.fallbackToFetch

Caught(backend) ==
  IF Propagates
  THEN /\ ucPc' = "failed"
       /\ ucIdx' = ucIdx
       /\ ucOutcome' = [kind |-> "error", source |-> backend]
  ELSE NextScraper

\* await scraper.isAvailable() settles.  The Playwright probe catches its own
\* errors; the probe of the browser adapter may reject.
ProbeOutcomes(backend) ==
  IF backend = "playwright" THEN {"true", "false"} ELSE {"true", "false", "throw"}

Probe ==
  /\ ucPc = "probe"
  /\ LET b == BrowserChain[ucIdx]
     IN \E r \in ProbeOutcomes(b) :
          /\ ucLog' = Logged(b, "isAvailable", r)
          /\ CASE r = "true" -> ucPc' = "scrape" /\ UNCHANGED <<ucIdx, ucOutcome>>
               [] r = "false" -> NextScraper
               [] OTHER -> Caught(b)
  /\ UNCHANGED notUc
  /\ UNCHANGED <<ucVariant, ucOpts>>

\* return await scraper.scrape(url, {...scrapeOptions, waitFor}) settles.
BrowserScrape ==
  /\ ucPc = "scrape"
  /\ LET b == BrowserChain[ucIdx]
     IN \E r \in {"ok", "throw"} :
          /\ ucLog' = Logged(b, "scrape", r)
          /\ IF r = "ok"
             THEN /\ ucPc' = "done"
                  /\ ucIdx' = ucIdx
                  /\ ucOutcome' = [kind |-> "ok", source |-> b]
             ELSE Caught(b)
  /\ UNCHANGED notUc
  /\ UNCHANGED <<ucVariant, ucOpts>>

\* return httpScraper.scrape(url, scrapeOptions)
HttpScrape ==
  /\ ucPc = "http"
  /\ \E r \in {"ok", "throw"} :
       /\ ucLog' = Logged(HttpScraper, "scrape", r)
       /\ ucPc' = IF r = "ok" THEN "done" ELSE "failed"
       /\ ucOutcome' = [kind |-> IF r = "ok" THEN "ok" ELSE "error", source |-> HttpScraper]
  /\ UNCHANGED notUc
  /\ UNCHANGED <<ucVariant, ucOpts, ucIdx>>

UcNext ==
  \/ Execute
  \/ Probe
  \/ BrowserScrape
  \/ HttpScrape

\* ------------------------------------------------------------------------
\* Claims about ScrapeUseCase.execute
\* ------------------------------------------------------------------------
BrowserClass == {"browser", "playwright"}
Rank(b) == CASE b = "browser" -> 1 [] b = "playwright" -> 2 [] OTHER -> 3

\* C9: with a browser-class backend required, backends are tried in the order
\* Browser then Playwright; when an attempted backend fails the next one is
\* tried only if fallbackToFetch is true, otherwise the error is propagated
\* at once and no other backend is invoked.
C9_FallbackOnlyIfAllowed ==
  NeedsBrowser =>
    /\ \A i, j \in 1..Len(ucLog) : i < j => Rank(ucLog[i].backend) <= Rank(ucLog[j].backend)
    /\ \A i \in 1..Len(ucLog) :
         (ucLog[i].backend \in BrowserClass /\ ucLog[i].outcome = "throw") =>
           IF ucOpts.fallbackToFetch
           THEN ucPc # "failed" \/ i < Len(ucLog)
           ELSE /\ i = Len(ucLog)
                /\ ucPc = "failed"
                /\ ucOutcome = [kind |-> "error", source |-> ucLog[i].backend]

C9_Witness ==
  /\ ucVariant = "full" /\ NeedsBrowser /\ ~ucOpts.fallbackToFetch
  /\ ucPc = "failed"
  /\ Len(ucLog) = 2
  /\ ucLog[2] = [backend |-> "browser", op |-> "scrape", outcome |-> "throw"]

BrowserRequired == ucOpts.preferBrowser \/ ucOpts.waitFor = "networkidle"
Returned == ucPc = "done" \/ ucPc = "failed"
\* undici if useHttp2, else fetch; the build without undici has fetch only
ExpectedHttp == IF ucVariant = "full" /\ ucOpts.useHttp2 THEN "undici" ELSE "fetch"

\* C28: a browser-class backend is probed first exactly when preferBrowser is
\* set or waitFor is "networkidle"; when neither holds no browser-class
\* backend is probed or invoked, and the call makes exactly one backend call:
\* one scrape on undici if useHttp2, else on fetch.
C28_BrowserOnlyWhenRequired ==
  /\ (BrowserRequired /\ ucLog # <<>>) =>
       /\ ucLog[1].backend \in BrowserClass
       /\ ucLog[1].op = "isAvailable"
  /\ ~BrowserRequired =>
       /\ \A i \in 1..Len(ucLog) : ucLog[i].backend \notin BrowserClass
       /\ Len(ucLog) <= 1
       /\ Returned <=> Len(ucLog) = 1
       /\ \A i \in 1..Len(ucLog) :
            ucLog[i].backend = ExpectedHttp /\ ucLog[i].op = "scrape"

C28_Witness ==
  /\ ucVariant = "full" /\ ~BrowserRequired /\ ucOpts.useHttp2
  /\ ucPc = "done"
  /\ ucLog = <<[backend |-> "undici", op |-> "scrape", outcome |-> "ok"]>>

\* Every browser-class backend of the build answered isAvailable() with false
AllUnavailable ==
  /\ Len(ucLog) >= Len(BrowserChain)
  /\ \A k \in 1..Len(BrowserChain) :
       ucLog[k] = [backend |-> BrowserChain[k], op |-> "isAvailable", outcome |-> "false"]

ScCallers == {"c1", "c2"}

\* The constructor arguments tried.  Requests has two cache keys, so capacity
\* one makes every insertion of a new key evict and capacity two never evicts.
\* With time-to-live 0 an entry is fresh at the instant it is stored and
\* expired from the first tick of the clock on.
CacheSizes == {1, 2}
CacheTtls == {0}

\* The requests: url, jsCode and waitForSelector as strings (sequences of
\* characters), "" being the empty sequence.
Requests ==
  {[url |-> <<"x">>, jsCode |-> <<>>, waitForSelector |-> <<>>],
   [url |-> <<"x">>, jsCode |-> <<"j">>, waitForSelector |-> <<>>]}

\* const cacheKey = `${url}|${jsCode || ""}|${waitForSelector || ""}`
CacheKey(req) == req.url \o <<"|">> \o req.jsCode \o <<"|">> \o req.waitForSelector

NoResult == 0
NoReq == [url |-> <<>>, jsCode |-> <<>>, waitForSelector |-> <<>>]
NoLast == [req |-> NoReq, result |-> NoResult, at |-> 0, cached |-> FALSE, acq |-> 0]

IdleScrape ==
  [pc |-> "idle", req |-> NoReq, useCache |-> FALSE, ctx |-> FALSE, page |-> FALSE,
   result |-> NoResult, cached |-> FALSE, error |-> FALSE, acq |-> 0, alone |-> FALSE,
   after |-> NoLast]

\* --- LRUCache -----------------------------------------------------------
KeyIndex(cache, key) ==
  IF \E n \in 1..Len(cache) : cache[n].key = key
  THEN CHOOSE n \in 1..Len(cache) : cache[n].key = key
  ELSE 0

Without(cache, n) == [m \in 1..(Len(cache) - 1) |-> IF m < n THEN cache[m] ELSE cache[m + 1]]

\* Mutant: an entry expires as soon as its age reaches the TTL.
ExpiredAtTtl(entry) == scNow - entry.timestamp >= scTtl

\* Date.now() - entry.timestamp > this.ttl
Expired(entry) == scNow - entry.timestamp > scTtl

\* get(key): absent, or expired (deleted), or moved to the end and returned
CacheGet(cache, key) ==
  LET n == KeyIndex(cache, key)
  IN IF n = 0 THEN [cache |-> cache, hit |-> FALSE, data |-> NoResult, at |-> 0]
     ELSE IF Expired(cache[n])
          THEN [cache |-> Without(cache, n), hit |-> FALSE, data |-> NoResult, at |-> 0]
          ELSE [cache |-> Append(Without(cache, n), cache[n]), hit |-> TRUE,
                data |-> cache[n].data, at |-> cache[n].timestamp]

\* set(key, data): drop the first key when full, then Map.set (a key that is
\* present keeps its position)
CacheSet(cache, key, data) ==
  LET c1 == IF Len(cache) >= scMaxSize /\ Len(cache) > 0 THEN Tail(cache) ELSE cache
      n == KeyIndex(c1, key)
      e == [key |-> key, data |-> data, timestamp |-> scNow]
  IN IF n = 0 THEN Append(c1, e) ELSE [c1 EXCEPT ![n] = e]

\* --- scrape -------------------------------------------------------------
Running(c) == scCall[c].pc \notin {"idle", "done", "failed"}

ScIdle ==
  /\ scMaxSize = 1
  /\ scTtl = 0
  /\ scNow = 0
  /\ scCache = <<>>
  /\ scCall = [c \in ScCallers |-> IdleScrape]
  /\ scCount = 0
  /\ scAcq = 0
  /\ scLast = NoLast

ScInit ==
  /\ scMaxSize \in CacheSizes
  /\ scTtl \in CacheTtls
  /\ scNow = 0
  /\ scCache = <<>>
  /\ scCall = [c \in ScCallers |-> IdleScrape]
  /\ scCount = 0
  /\ scAcq = 0
  /\ scLast = NoLast

FirstFree == IF scCall["c1"].pc = "idle" THEN "c1" ELSE "c2"

\* What the caller of a call that returned a result can repeat.
LastOf(sc, at) ==
  IF sc.alone /\ sc.useCache
  THEN [req |-> sc.req, result |-> sc.result, at |-> at, cached |-> sc.cached,
        acq |-> sc.acq]
  ELSE NoLast

\* scrape(url, options), up to its first await: the cache lookup, the signal
\* check, then the try block begins with createContext().
Scrape(c, req, cacheOn, sigAborted) ==
  /\ scCall[c].pc = "idle"
  /\ c = FirstFree
  /\ scCount < MaxScrapes
  /\ scCount' = scCount + 1
  /\ LET g == IF cacheOn THEN CacheGet(scCache, CacheKey(req))
              ELSE [cache |-> scCache, hit |-> FALSE, data |-> NoResult, at |-> 0]
         base == [IdleScrape EXCEPT !.req = req, !.useCache = cacheOn,
                                    !.alone = \A d \in ScCallers \ {c} : ~Running(d),
                                    !.after = IF scLast.req = req /\ scNow - scLast.at <= scTtl
                                              THEN scLast ELSE NoLast]
         mine == IF g.hit THEN [base EXCEPT !.pc = "done", !.cached = TRUE, !.result = g.data]
                 ELSE IF sigAborted THEN [base EXCEPT !.pc = "failed", !.error = TRUE]
                 ELSE [base EXCEPT !.pc = "createContext"]
     IN /\ scCache' = g.cache
        /\ scCall' = [d \in ScCallers |->
                        IF d = c THEN mine
                        ELSE IF Running(d) THEN [scCall[d] EXCEPT !.alone = FALSE]
                        ELSE scCall[d]]
        /\ scLast' = IF g.hit THEN LastOf(mine, g.at) ELSE NoLast
  /\ UNCHANGED notSc
  /\ UNCHANGED <<scMaxSize, scTtl, scNow, scAcq>>

\* SearchAdapter.search(query, options): the search page is scraped with
\* cache: false and the caller's signal, without jsCode or waitForSelector.
Search(c, req, sigAborted) ==
  /\ req.jsCode = <<>>
  /\ req.waitForSelector = <<>>
  /\ Scrape(c, req, FALSE, sigAborted)

\* context = await this.createContext()
CreateContext(c) ==
  /\ scCall[c].pc = "createContext"
  /\ \/ scCall' = [scCall EXCEPT ![c].pc = "newPage", ![c].ctx = TRUE]
     \/ scCall' = [scCall EXCEPT ![c].pc = "failed", ![c].error = TRUE]
  /\ scLast' = NoLast
  /\ UNCHANGED notSc
  /\ UNCHANGED <<scMaxSize, scTtl, scNow, scCache, scCount, scAcq>>

\* page = await context.newPage()
NewPage(c) ==
  /\ scCall[c].pc = "newPage"
  /\ \/ scCall' = [scCall EXCEPT ![c].pc = "navigate", ![c].page = TRUE]
     \/ scCall' = [scCall EXCEPT ![c].pc = "closeContext", ![c].error = TRUE]
  /\ scLast' = NoLast
  /\ UNCHANGED notSc
  /\ UNCHANGED <<scMaxSize, scTtl, scNow, scCache, scCount, scAcq>>

\* Mutant: the result is stored whatever the cache option says.
CachesAlways(sc) == TRUE

\* if (useCache) { this.cache.set(cacheKey, result); }
Caches(sc) == sc.useCache

\* The rest of the try block: goto, waitForSelector, evaluate, content, title,
\* the result is built and cached; or one of the awaits rejects.
Navigate(c) ==
  /\ scCall[c].pc = "navigate"
  /\ scAcq' = scAcq + 1
  /\ \/ /\ scCall' = [scCall EXCEPT ![c].pc = "closePage", ![c].result = scAcq + 1,
                                    ![c].acq = @ + 1]
        /\ scCache' = IF Caches(scCall[c])
                      THEN CacheSet(scCache, CacheKey(scCall[c].req), scAcq + 1)
                      ELSE scCache
     \/ /\ scCall' = [scCall EXCEPT ![c].pc = "closePage", ![c].error = TRUE,
                                    ![c].acq = @ + 1]
        /\ scCache' = scCache
  /\ scLast' = NoLast
  /\ UNCHANGED notSc
  /\ UNCHANGED <<scMaxSize, scTtl, scNow, scCount>>

\* finally { if (page) await page.close(); ... }
ClosePage(c) ==
  /\ scCall[c].pc = "closePage"
  /\ \/ scCall' = [scCall EXCEPT ![c].pc = "closeContext", ![c].page = FALSE]
     \/ scCall' = [scCall EXCEPT ![c].pc = "failed", ![c].error = TRUE]
  /\ scLast' = NoLast
  /\ UNCHANGED notSc
  /\ UNCHANGED <<scMaxSize, scTtl, scNow, scCache, scCount, scAcq>>

\* finally { ...; if (context) await context.close(); } and the call settles
CloseContext(c) ==
  /\ scCall[c].pc = "closeContext"
  /\ \/ /\ scCall' = [scCall EXCEPT ![c].pc = IF scCall[c].error THEN "failed" ELSE "done",
                                    ![c].ctx = FALSE]
        /\ scLast' = IF scCall[c].error THEN NoLast
                     ELSE LET n == KeyIndex(scCache, CacheKey(scCall[c].req))
                          IN IF n # 0 /\ scCache[n].data = scCall[c].result
                             THEN LastOf(scCall[c], scCache[n].timestamp)
                             ELSE NoLast
     \/ /\ scCall' = [scCall EXCEPT ![c].pc = "failed", ![c].error = TRUE]
        /\ scLast' = NoLast
  /\ UNCHANGED notSc
  /\ UNCHANGED <<scMaxSize, scTtl, scNow, scCache, scCount, scAcq>>

\* The caller consumes the settled promise.
ScrapeReturn(c) ==
  /\ scCall[c].pc \in {"done", "failed"}
  /\ scCall' = [scCall EXCEPT ![c] = IdleScrape]
  /\ UNCHANGED notSc
  /\ UNCHANGED <<scMaxSize, scTtl, scNow, scCache, scCount, scAcq, scLast>>

\* clearCache()
ClearCache ==
  /\ scCache # <<>>
  /\ scCache' = <<>>
  /\ scLast' = NoLast
  /\ UNCHANGED notSc
  /\ UNCHANGED <<scMaxSize, scTtl, scNow, scCall, scCount, scAcq>>

ScTick ==
  /\ scNow < MaxTime
  /\ scNow' = scNow + 1
  /\ UNCHANGED notSc
  /\ UNCHANGED <<scMaxSize, scTtl, scCache, scCall, scCount, scAcq, scLast>>

ScNext ==
  \/ \E c \in ScCallers, req \in Requests, cacheOn \in BOOLEAN, sigAborted \in BOOLEAN :
       Scrape(c, req, cacheOn, sigAborted)
  \/ \E c \in ScCallers, req \in Requests, sigAborted \in BOOLEAN : Search(c, req, sigAborted)
  \/ \E c \in ScCallers : CreateContext(c)
  \/ \E c \in ScCallers : NewPage(c)
  \/ \E c \in ScCallers : Navigate(c)
  \/ \E c \in ScCallers : ClosePage(c)
  \/ \E c \in ScCallers : CloseContext(c)
  \/ \E c \in ScCallers : ScrapeReturn(c)
  \/ ClearCache
  \/ ScTick

\* ------------------------------------------------------------------------
\* Claims about scrape and the result cache
\* ------------------------------------------------------------------------
\* C10: scraping the same target twice through the same adapter with caching
\* enabled, within the TTL, performs exactly one page acquisition: the second
\* call touches no browser context and returns cached: true with the result
\* of the first call.
SecondOfTwo(c) ==
  /\ scCall[c].pc # "idle"
  /\ scCall[c].useCache
  /\ scCall[c].after # NoLast

C10_SecondScrapeIsCached ==
  \A c \in ScCallers :
    SecondOfTwo(c) =>
      /\ scCall[c].pc = "done"
      /\ scCall[c].cached
      /\ scCall[c].result = scCall[c].after.result
      /\ ~scCall[c].ctx /\ ~scCall[c].page
      /\ scCall[c].acq + scCall[c].after.acq = IF scCall[c].after.cached THEN 0 ELSE 1

C10_Witness ==
  \E c \in ScCallers :
    /\ SecondOfTwo(c)
    /\ ~scCall[c].after.cached
    /\ scNow - scCall[c].after.at = scTtl
    /\ scCall[c].pc = "done" /\ scCall[c].cached

\* C11: a scrape with caching disabled never reads from or writes to the
\* result cache: no step of such a call changes the cache, and it is never
\* answered from the cache, even when an entry is stored under its key.
\* Every search runs its scrape with caching disabled.
Moved(c) == scCall'[c].pc # scCall[c].pc
CacheOff(c) == IF scCall[c].pc = "idle" THEN ~scCall'[c].useCache ELSE ~scCall[c].useCache

C11_CacheDisabledLeavesCache ==
  /\ [](\A c \in ScCallers : (scCall[c].pc # "idle" /\ ~scCall[c].useCache) => ~scCall[c].cached)
  /\ [][\A c \in ScCallers : (Moved(c) /\ CacheOff(c)) => scCache' = scCache]_vars
  /\ [][\A c \in ScCallers, req \in Requests, sigAborted \in BOOLEAN :
          Search(c, req, sigAborted) => (~scCall'[c].useCache /\ scCache' = scCache)]_vars

C11_Witness ==
  \E c \in ScCallers :
    /\ scCall[c].pc = "done" /\ ~scCall[c].useCache
    /\ KeyIndex(scCache, CacheKey(scCall[c].req)) # 0
    /\ ~Expired(scCache[KeyIndex(scCache, CacheKey(scCall[c].req))])
    /\ scCache[KeyIndex(scCache, CacheKey(scCall[c].req))].data # scCall[c].result

Settled(c) == scCall[c].pc \in {"done", "failed"}

\* context.close() was called and threw: the page is closed or was never made
ContextCloseThrew(c) == scCall[c].pc = "failed" /\ scCall[c].ctx /\ ~scCall[c].page

\* C26: when scrape returns or throws, the context it created has been
\* closed (its close was at least called), whichever await failed: the
\* navigation, the selector wait, the script, or the close of the page.
C26_ContextClosedOnEveryExit ==
  \A c \in ScCallers :
    Settled(c) => (~scCall[c].ctx \/ ContextCloseThrew(c))

\* ========================================================================
\* The caches on their own: LruCache (fetch pool) and LRUCache (Playwright)
\* ========================================================================
CacheKinds == {"LruCache", "LRUCache"}

\* Capacities: LargeSize is the smallest at which a tenth is more than one.
LruSizes == {1, 2, LargeSize}
LruTtls == 0..MaxLruTtl
LruKeys == {1, 2, MaxKey}

Max(x, y) == IF x > y THEN x ELSE y

Keys(cache) == {cache[n].key : n \in 1..Len(cache)}

\* What get and getStale return: the entry, or undefined
Absent == [hit |-> FALSE, data |-> NoResult, timestamp |-> 0]
Found(e) == [hit |-> TRUE, data |-> e.data, timestamp |-> e.timestamp]

\* Date.now() - entry.timestamp > this.ttl
LruExpired(entry) == scNow - entry.timestamp > scTtl

\* LruCache.get(key)
LruGet(cache, key) ==
  LET n == KeyIndex(cache, key)
  IN IF n = 0 THEN [cache |-> cache, ret |-> Absent]
     ELSE IF LruExpired(cache[n]) THEN [cache |-> Without(cache, n), ret |-> Absent]
     ELSE [cache |-> cache, ret |-> Found(cache[n])]

\* Mutant: getStale applies the expiry test of get.
GetStaleAsGet(cache, key) == LruGet(cache, key)

\* LruCache.getStale(key): return this.entries.get(key)
LruGetStale(cache, key) ==
  LET n == KeyIndex(cache, key)
  IN [cache |-> cache, ret |-> IF n = 0 THEN Absent ELSE Found(cache[n])]

\* Mutant: one entry is evicted whatever the capacity.
EvictOne(maxSize) == 1

\* const count = Math.max(1, Math.floor(this.maxSize * 0.1))
EvictCount(maxSize) == Max(1, maxSize \div 10)

\* The index (from 0) of entry i in [...entries].sort((a, b) => a.timestamp -
\* b.timestamp); the sort is stable.
SortedPos(cache, i) ==
  Cardinality({j \in 1..Len(cache) :
                 \/ cache[j].timestamp < cache[i].timestamp
                 \/ cache[j].timestamp = cache[i].timestamp /\ j < i})

\* The entries evict() deletes: sorted[0] .. sorted[count - 1]
Victims(cache) == {i \in 1..Len(cache) : SortedPos(cache, i) < EvictCount(scMaxSize)}

\* evict(): the Map without the victims, the others in their order
Evict(cache) ==
  LET keep == (1..Len(cache)) \ Victims(cache)
  IN [m \in 1..Cardinality(keep) |->
        cache[CHOOSE i \in keep : Cardinality({j \in keep : j <= i}) = m]]

\* Mutant: a key that is present keeps its entry.
MapSetIfAbsent(cache, key, e) == IF KeyIndex(cache, key) = 0 THEN Append(cache, e) ELSE cache

\* this.entries.set(key, entry): a key that is present keeps its position
MapSet(cache, key, e) ==
  LET n == KeyIndex(cache, key)
  IN IF n = 0 THEN Append(cache, e) ELSE [cache EXCEPT ![n] = e]

\* Mutant: set stores the entry without making room.
SetWithoutEvict(cache, key, e) == MapSet(cache, key, e)

\* LruCache.set(key, entry)
LruSet(cache, key, e) ==
  MapSet(IF Len(cache) >= scMaxSize THEN Evict(cache) ELSE cache, key, e)

\* The entry a caller stores: stamped with the time of the insertion.
NewEntry(key, data) == [key |-> key, data |-> data, timestamp |-> scNow]

\* The keys a set removes to make room, per class.
Evicted(cache) ==
  IF Len(cache) < scMaxSize THEN {}
  ELSE IF lcKind = "LruCache" THEN {cache[i].key : i \in Victims(cache)}
  ELSE {cache[1].key}

NoOp ==
  [op |-> "none", key |-> 0, ret |-> Absent, stored |-> 0, at |-> 0, underCapacity |-> FALSE,
   evicted |-> {}, afterSet |-> FALSE]

\* A cache that has been in use: n entries stored at time 0.
Filled(n) == [i \in 1..n |-> [key |-> i, data |-> 0, timestamp |-> 0]]

LcIdle ==
  /\ lcKind = "LruCache"
  /\ lcOps = 0
  /\ lcLast = NoOp

LcInit ==
  /\ lcKind \in CacheKinds
  /\ lcOps = 0
  /\ lcLast = NoOp
  /\ scMaxSize \in LruSizes
  /\ scTtl \in LruTtls
  /\ scNow = 0
  /\ scCache \in {<<>>, Filled(scMaxSize - 1)}
  /\ scCall = [c \in ScCallers |-> IdleScrape]
  /\ scCount = 0
  /\ scAcq = 0
  /\ scLast = NoLast

\* cache.get(key)
LcGet(key) ==
  /\ lcOps < MaxOps
  /\ lcOps' = lcOps + 1
  /\ LET g == IF lcKind = "LruCache" THEN LruGet(scCache, key)
              ELSE LET h == CacheGet(scCache, key)
                   IN [cache |-> h.cache,
                       ret |-> [hit |-> h.hit, data |-> h.data, timestamp |-> h.at]]
     IN /\ scCache' = g.cache
        /\ lcLast' = [NoOp EXCEPT !.op = "get", !.key = key, !.ret = g.ret, !.at = scNow,
                        !.stored = lcLast.stored,
                        !.afterSet = /\ lcLast.op = "set" /\ lcLast.key = key
                                     /\ lcLast.at = scNow /\ lcLast.underCapacity]
  /\ UNCHANGED notLc
  /\ UNCHANGED <<lcKind, scMaxSize, scTtl, scNow, scCall, scCount, scAcq, scLast>>

\* cache.getStale(key)   (LruCache only)
LcGetStale(key) ==
  /\ lcKind = "LruCache"
  /\ lcOps < MaxOps
  /\ lcOps' = lcOps + 1
  /\ LET g == LruGetStale(scCache, key)
     IN /\ scCache' = g.cache
        /\ lcLast' = [NoOp EXCEPT !.op = "getStale", !.key = key, !.ret = g.ret, !.at = scNow]
  /\ UNCHANGED notLc
  /\ UNCHANGED <<lcKind, scMaxSize, scTtl, scNow, scCall, scCount, scAcq, scLast>>

\* cache.set(key, entry): the data stored is new with every call
LcSet(key) ==
  /\ lcOps < MaxOps
  /\ lcOps' = lcOps + 1
  /\ scCache' = IF lcKind = "LruCache" THEN LruSet(scCache, key, NewEntry(key, lcOps + 1))
                ELSE CacheSet(scCache, key, lcOps + 1)
  /\ lcLast' = [NoOp EXCEPT !.op = "set", !.key = key, !.stored = lcOps + 1, !.at = scNow,
                  !.underCapacity = Len(scCache) < scMaxSize,
                  !.evicted = Evicted(scCache)]
  /\ UNCHANGED notLc
  /\ UNCHANGED <<lcKind, scMaxSize, scTtl, scNow, scCall, scCount, scAcq, scLast>>

\* cache.clear()
LcClear ==
  /\ lcOps < MaxOps
  /\ lcOps' = lcOps + 1
  /\ scCache # <<>>
  /\ scCache' = <<>>
  /\ lcLast' = [NoOp EXCEPT !.op = "clear", !.at = scNow]
  /\ UNCHANGED notLc
  /\ UNCHANGED <<lcKind, scMaxSize, scTtl, scNow, scCall, scCount, scAcq, scLast>>

\* Date.now() advances
LcTick ==
  /\ scNow <= MaxLruTtl
  /\ scNow' = scNow + 1
  /\ UNCHANGED notLc
  /\ UNCHANGED <<lcVars, scMaxSize, scTtl, scCache, scCall, scCount, scAcq, scLast>>

LcNext ==
  \/ \E key \in LruKeys : LcGet(key)
  \/ \E key \in LruKeys : LcGetStale(key)
  \/ \E key \in LruKeys : LcSet(key)
  \/ LcClear
  \/ LcTick

\* ------------------------------------------------------------------------
\* Claims about the caches
\* ------------------------------------------------------------------------
\* C12: for a key inserted while the cache holds fewer than maxSize entries,
\* get(K) immediately after set(K, E) returns E, unless the TTL is zero.
GetRightAfterSet ==
  /\ lcKind = "LruCache"
  /\ lcLast.op = "get"
  /\ lcLast.afterSet
  /\ scTtl # 0

C12_GetAfterSetReturnsEntry ==
  GetRightAfterSet =>
    lcLast.ret = [hit |-> TRUE, data |-> lcLast.stored, timestamp |-> lcLast.at]

C12_Witness ==
  /\ GetRightAfterSet
  /\ lcLast.ret.hit
  /\ lcLast.ret.data = lcLast.stored
  /\ Len(scCache) >= 2

\* C13: a set on a cache that already holds maxSize entries evicts exactly
\* max(1, floor(maxSize * 0.1)) entries before storing the new one, and the
\* evicted entries are the oldest by insertion time.
StampOf(cache, key) == cache[KeyIndex(cache, key)].timestamp

SetAtCapacity ==
  /\ lcKind = "LruCache"
  /\ lcOps' = lcOps + 1
  /\ lcLast'.op = "set"
  /\ Len(scCache) >= scMaxSize

C13_EvictsOldestTenth ==
  [][SetAtCapacity =>
       /\ lcLast'.evicted \subseteq Keys(scCache)
       /\ Cardinality(lcLast'.evicted) = (IF scMaxSize < 20 THEN 1 ELSE scMaxSize \div 10)
       /\ \A x \in lcLast'.evicted, y \in Keys(scCache) \ lcLast'.evicted :
            StampOf(scCache, x) <= StampOf(scCache, y)
       /\ Keys(scCache') = (Keys(scCache) \ lcLast'.evicted) \cup {lcLast'.key}
       /\ Len(scCache') = Cardinality(Keys(scCache'))]_vars

C13_Witness ==
  /\ lcKind = "LruCache"
  /\ lcLast.op = "set"
  /\ lcLast.evicted = {2, 3}
  /\ scMaxSize = LargeSize
  /\ KeyIndex(scCache, 1) = 1

\* C14: eviction is driven by recency of insertion, not recency of use:
\* reading an unexpired entry with get never changes which entries a later
\* insert at capacity evicts.
WouldEvict(cache) ==
  IF cache = <<>> THEN {}
  ELSE IF lcKind = "LruCache" THEN {cache[i].key : i \in Victims(cache)}
  ELSE {cache[1].key}

GetHit ==
  /\ lcOps' = lcOps + 1
  /\ lcLast'.op = "get"
  /\ lcLast'.ret.hit

C14_ReadsDoNotChangeEviction ==
  [][GetHit => WouldEvict(scCache') = WouldEvict(scCache)]_vars

\* C15: LruCache.get(K) returns absent when K is missing or when the age of
\* its entry exceeds the TTL, and deletes the entry in the expired case;
\* getStale(K) returns the stored entry whatever its age and deletes nothing;
\* no entry is removed for expiry except by a get on its own key.
LruStep(op) == lcKind = "LruCache" /\ lcOps' = lcOps + 1 /\ lcLast'.op = op
Holds(cache, key) == key \in Keys(cache)
EntryOf(cache, key) == cache[KeyIndex(cache, key)]
TooOld(cache, key) == scNow - EntryOf(cache, key).timestamp > scTtl
Others(cache, key) == SelectSeq(cache, LAMBDA e : e.key # key)

C15_ExpiryOnlyOnGet ==
  /\ [][LruStep("get") =>
          LET k == lcLast'.key
          IN IF ~Holds(scCache, k)
             THEN lcLast'.ret = Absent /\ scCache' = scCache
             ELSE IF TooOld(scCache, k)
             THEN lcLast'.ret = Absent /\ scCache' = Others(scCache, k)
             ELSE /\ lcLast'.ret = Found(EntryOf(scCache, k))
                  /\ scCache' = scCache]_vars
  /\ [][LruStep("getStale") =>
          LET k == lcLast'.key
          IN /\ scCache' = scCache
             /\ lcLast'.ret = IF Holds(scCache, k) THEN Found(EntryOf(scCache, k))
                              ELSE Absent]_vars
  /\ [][(lcKind = "LruCache" /\ ~(Keys(scCache) \subseteq Keys(scCache'))) =>
          \/ lcLast'.op \in {"set", "clear"}
          \/ /\ lcLast'.op = "get"
             /\ Keys(scCache) \ Keys(scCache') = {lcLast'.key}
             /\ TooOld(scCache, lcLast'.key)]_vars

C15_Witness ==
  /\ lcKind = "LruCache"
  /\ lcLast.op = "getStale"
  /\ lcLast.ret.hit
  /\ scNow - lcLast.ret.timestamp > scTtl
  /\ Holds(scCache, lcLast.key)

\* C38: after any sequence of set, get, getStale and clear on a cache of
\* capacity maxSize >= 1, a set on a key that is present included, the number
\* of stored entries never exceeds maxSize.
C38_SizeNeverExceedsMaxSize == Len(scCache) <= scMaxSize

\* A set on a key that was present found the cache full, evicted that very
\* key, and left the cache full.
C38_Witness ==
  /\ lcLast.op = "set"
  /\ ~lcLast.underCapacity
  /\ lcLast.key \in lcLast.evicted
  /\ Len(scCache) = scMaxSize

\* ========================================================================
\* CDPPage: the wire-protocol client, and the stale-pending cleanup timer
\* ========================================================================
\* this.ws and the readyState of its socket:
\*   "new"         ws = null, connect() not called yet
\*   "connecting"  ws set, socket CONNECTING
\*   "ready"       ws set, socket OPEN
\*   "dead"        ws set, socket closed by the peer or by a connection error
\*   "closed"      ws = null after close()
CdpPhases == {"new", "connecting", "ready", "dead", "closed"}

\* await this.send("Page.enable"), ("Network.enable"), ("Runtime.enable")
EnableCommands == <<"Page.enable", "Network.enable", "Runtime.enable">>

NoHandler == [pc |-> "none", n |-> 0, id |-> 0]
NoMessage == [id |-> 0, kind |-> "none", matched |-> FALSE]
PoolUrls == {"u"}

\* Half the staleness threshold: the step of the clock
HalfThreshold == STALE_PENDING_THRESHOLD_MS \div 2

\* if (!this.ws) throw new Error("Page not connected")
WsSet == cdpPhase \in {"connecting", "ready", "dead"}

\* Mutant: the counter is not advanced past 1.
ReusedId == IF cdpMessageId = 0 THEN 1 ELSE cdpMessageId

\* const id = ++this.messageId
NextId == cdpMessageId + 1

\* this.ws!.send(...): written on an open socket; the ws library throws on a
\* socket that is still connecting; on a closed socket it throws or drops the
\* frame, depending on its version.
WsSendOutcomes ==
  CASE cdpPhase = "ready" -> {"written"}
    [] cdpPhase = "connecting" -> {"throws"}
    [] OTHER -> {"throws", "dropped"}

SendOutcomes == IF WsSet THEN WsSendOutcomes ELSE {"refused"}

\* The promise of one send() call
NewCall(by, id, outcome) ==
  [by |-> by, id |-> id, status |-> IF outcome \in {"throws", "refused"} THEN "rejected" ELSE "pending",
   answered |-> 0, sentAt |-> cdpNow, written |-> outcome = "written", phase |-> cdpPhase,
   reply |-> "none"]

\* send(method, params), called by `by`
SendBy(by, outcome) ==
  IF outcome = "refused"
  THEN /\ cdpCalls' = Append(cdpCalls, NewCall(by, 0, outcome))
       /\ UNCHANGED <<cdpMessageId, cdpPending>>
  ELSE /\ cdpMessageId' = NextId
       /\ cdpPending' = cdpPending \cup {NextId}
       /\ cdpCalls' = Append(cdpCalls, NewCall(by, NextId, outcome))

CallOf(id) == CHOOSE k \in 1..Len(cdpCalls) : cdpCalls[k].id = id
UserSends == Cardinality({k \in 1..Len(cdpCalls) : cdpCalls[k].by = "user"})
EverOpen == \E k \in 1..Len(cdpCalls) : cdpCalls[k].written

CdpIdle ==
  /\ cdpPhase = "new"
  /\ cdpConnect = "none"
  /\ cdpHandler = NoHandler
  /\ cdpMessageId = 0
  /\ cdpPending = {}
  /\ cdpCalls = <<>>
  /\ cdpNow = 0
  /\ cdpMsgs = 0
  /\ cdpLast = NoMessage
  /\ cdpConnects = 0
  /\ prPending = {}
  /\ prStarted = 0
  /\ prNextFire = STALE_PENDING_THRESHOLD_MS

\* connect(): the socket is created, the listeners are attached
Connect ==
  /\ cdpPhase \in {"new", "closed"}
  /\ cdpHandler.pc # "await"
  /\ cdpConnects < MaxConnects
  /\ cdpConnects' = cdpConnects + 1
  /\ cdpPhase' = "connecting"
  /\ cdpConnect' = "pending"
  /\ cdpHandler' = NoHandler
  /\ UNCHANGED notCdp
  /\ UNCHANGED <<cdpMessageId, cdpPending, cdpCalls, cdpNow, cdpMsgs, cdpLast, prPending,
                 prStarted, prNextFire>>

\* ws.on("open"): the handler runs up to its first await
Open ==
  /\ cdpPhase = "connecting"
  /\ cdpPhase' = "ready"
  /\ SendBy("connect", "written")
  /\ cdpHandler' = [pc |-> "await", n |-> 1, id |-> NextId]
  /\ UNCHANGED notCdp
  /\ UNCHANGED <<cdpConnect, cdpNow, cdpMsgs, cdpLast, cdpConnects, prPending, prStarted,
                 prNextFire>>

\* The handler resumes after an await: the next enable command, or resolve();
\* a rejected send ends the handler without settling connect().
HandlerStep ==
  /\ cdpHandler.pc = "await"
  /\ cdpCalls[CallOf(cdpHandler.id)].status # "pending"
  /\ IF cdpCalls[CallOf(cdpHandler.id)].status = "rejected"
     THEN /\ cdpHandler' = [cdpHandler EXCEPT !.pc = "dead"]
          /\ UNCHANGED <<cdpConnect, cdpMessageId, cdpPending, cdpCalls>>
     ELSE IF cdpHandler.n = Len(EnableCommands)
     THEN /\ cdpHandler' = [cdpHandler EXCEPT !.pc = "done"]
          /\ cdpConnect' = "resolved"
          /\ UNCHANGED <<cdpMessageId, cdpPending, cdpCalls>>
     ELSE \E o \in SendOutcomes :
            /\ SendBy("connect", o)
            /\ cdpHandler' = IF o \in {"throws", "refused"}
                             THEN [cdpHandler EXCEPT !.pc = "dead"]
                             ELSE [pc |-> "await", n |-> cdpHandler.n + 1, id |-> NextId]
            /\ UNCHANGED cdpConnect
  /\ UNCHANGED notCdp
  /\ UNCHANGED <<cdpPhase, cdpNow, cdpMsgs, cdpLast, cdpConnects, prPending, prStarted,
                 prNextFire>>

\* ws.on("error", reject): the connection cannot be established
WsError ==
  /\ cdpPhase = "connecting"
  /\ cdpPhase' = "dead"
  /\ cdpConnect' = "rejected"
  /\ UNCHANGED notCdp
  /\ UNCHANGED <<cdpHandler, cdpMessageId, cdpPending, cdpCalls, cdpNow, cdpMsgs, cdpLast,
                 cdpConnects, prPending, prStarted, prNextFire>>

\* The peer goes away: the socket closes, nothing in CDPPage listens for it
PeerClose ==
  /\ cdpPhase = "ready"
  /\ cdpPhase' = "dead"
  /\ UNCHANGED notCdp
  /\ UNCHANGED <<cdpConnect, cdpHandler, cdpMessageId, cdpPending, cdpCalls, cdpNow, cdpMsgs,
                 cdpLast, cdpConnects, prPending, prStarted, prNextFire>>

\* send(method, params) called by a user of the page
Send ==
  /\ UserSends < MaxSends
  /\ \E o \in SendOutcomes : SendBy("user", o)
  /\ UNCHANGED notCdp
  /\ UNCHANGED <<cdpPhase, cdpConnect, cdpHandler, cdpNow, cdpMsgs, cdpLast, cdpConnects,
                 prPending, prStarted, prNextFire>>

\* Mutant: the matched entry stays in the table.
Kept(id) == cdpPending

\* this.pendingCommands.delete(message.id)
Remaining(id) == cdpPending \ {id}

\* handleMessage(data) for a message {id, result} or {id, error}
HandleMessage(id, kind) ==
  /\ cdpMsgs < MaxMessages
  /\ cdpPhase = "ready" \/ (cdpPhase = "closed" /\ EverOpen)
  /\ cdpMsgs' = cdpMsgs + 1
  /\ cdpLast' = [id |-> id, kind |-> kind, matched |-> id \in cdpPending]
  /\ IF id \in cdpPending
     THEN /\ cdpPending' = Remaining(id)
          /\ cdpCalls' = [cdpCalls EXCEPT ![CallOf(id)] =
               [@ EXCEPT !.answered = @ + 1,
                         !.reply = IF cdpCalls[CallOf(id)].status # "pending" THEN @ ELSE kind,
                         !.status = IF @ # "pending" THEN @
                                    ELSE IF kind = "error" THEN "rejected" ELSE "resolved"]]
     ELSE UNCHANGED <<cdpPending, cdpCalls>>
  /\ UNCHANGED notCdp
  /\ UNCHANGED <<cdpPhase, cdpConnect, cdpHandler, cdpMessageId, cdpNow, cdpConnects,
                 prPending, prStarted, prNextFire>>

\* close(): if (this.ws) { this.ws.close(); this.ws = null; }; a socket closed
\* before it opened reports an error to connect().
Close ==
  /\ WsSet
  /\ cdpPhase' = "closed"
  /\ cdpConnect' = IF cdpPhase = "connecting" THEN "rejected" ELSE cdpConnect
  /\ UNCHANGED notCdp
  /\ UNCHANGED <<cdpHandler, cdpMessageId, cdpPending, cdpCalls, cdpNow, cdpMsgs, cdpLast,
                 cdpConnects, prPending, prStarted, prNextFire>>

\* Date.now() advances, but not past a timer that is due
CdpTick ==
  /\ cdpNow < MaxCdpTicks * HalfThreshold
  /\ cdpNow < prNextFire
  /\ cdpNow' = cdpNow + HalfThreshold
  /\ UNCHANGED notCdp
  /\ UNCHANGED <<cdpPhase, cdpConnect, cdpHandler, cdpMessageId, cdpPending, cdpCalls, cdpMsgs,
                 cdpLast, cdpConnects, prPending, prStarted, prNextFire>>

\* A request enters pendingRequests of the fetch pool.
StartRequest(url) ==
  /\ prStarted < MaxRequests
  /\ \A e \in prPending : e.url # url
  /\ prStarted' = prStarted + 1
  /\ prPending' = prPending \cup {[url |-> url, startedAt |-> cdpNow]}
  /\ UNCHANGED notCdp
  /\ UNCHANGED <<cdpPhase, cdpConnect, cdpHandler, cdpMessageId, cdpPending, cdpCalls, cdpNow,
                 cdpMsgs, cdpLast, cdpConnects, prNextFire>>

\* now - entry.startedAt > STALE_PENDING_THRESHOLD_MS
StaleAt(t, startedAt) == t - startedAt > STALE_PENDING_THRESHOLD_MS

\* The setInterval callback of startStalePendingCleanup(pendingRequests)
StaleCleanup ==
  /\ cdpNow >= prNextFire
  /\ prNextFire' = prNextFire + STALE_PENDING_THRESHOLD_MS
  /\ prPending' = {e \in prPending : ~StaleAt(cdpNow, e.startedAt)}
  /\ UNCHANGED notCdp
  /\ UNCHANGED <<cdpPhase, cdpConnect, cdpHandler, cdpMessageId, cdpPending, cdpCalls, cdpNow,
                 cdpMsgs, cdpLast, cdpConnects, prStarted>>

\* The page over its whole life, connection failures included
CdpNext ==
  \/ Connect
  \/ Open
  \/ HandlerStep
  \/ WsError
  \/ PeerClose
  \/ Send
  \/ \E id \in 1..(cdpMessageId + 1), kind \in {"result", "error"} : HandleMessage(id, kind)
  \/ Close

\* The page on a live connection, next to the clock and the cleanup timer
StaleNext ==
  \/ Connect
  \/ Open
  \/ HandlerStep
  \/ Send
  \/ \E id \in 1..(cdpMessageId + 1), kind \in {"result", "error"} : HandleMessage(id, kind)
  \/ CdpTick
  \/ \E url \in PoolUrls : StartRequest(url)
  \/ StaleCleanup

\* ========================================================================
\* CDPPage.goto: navigate, then poll document.readyState against a timer
\* ========================================================================
\* A reply is "error", or a result: "complete" is the result of
\* Runtime.evaluate whose value is "complete", "result" any other result.
ReplyKinds == {"result", "error", "complete"}

\* options.timeout
GotoTimeouts == {0, 2 * POLL_DELAY_MS}

NoPoll == [pc |-> "none", id |-> 0, wake |-> 0]
NoTimer == [state |-> "unset", due |-> 0]

GtIdle ==
  /\ gtPc = "idle"
  /\ gtError = "none"
  /\ gtTimeout = 0
  /\ gtAwait = 0
  /\ gtPoll = NoPoll
  /\ gtTimer = NoTimer

\* A page whose connect() has resolved: the three enable commands answered
Connected ==
  /\ cdpPhase = "ready"
  /\ cdpConnect = "resolved"
  /\ cdpHandler = [pc |-> "done", n |-> Len(EnableCommands), id |-> Len(EnableCommands)]
  /\ cdpMessageId = Len(EnableCommands)
  /\ cdpPending = {}
  /\ cdpCalls = [k \in 1..Len(EnableCommands) |->
                   [by |-> "connect", id |-> k, status |-> "resolved", answered |-> 1,
                    sentAt |-> 0, written |-> TRUE,
                    phase |-> IF k = 1 THEN "connecting" ELSE "ready", reply |-> "result"]]
  /\ cdpNow = 0
  /\ cdpMsgs = 0
  /\ cdpLast = NoMessage
  /\ cdpConnects = 1
  /\ prPending = {}
  /\ prStarted = 0
  /\ prNextFire = STALE_PENDING_THRESHOLD_MS

\* A promise continuation is ready to run: it runs before any timer callback
\* or socket event.
MicrotaskReady ==
  \/ gtPc = "navigating" /\ cdpCalls[CallOf(gtAwait)].status # "pending"
  \/ gtPoll.pc = "awaiting" /\ cdpCalls[CallOf(gtPoll.id)].status # "pending"

TimerDue ==
  \/ gtTimer.state = "armed" /\ cdpNow >= gtTimer.due
  \/ gtPoll.pc = "sleeping" /\ cdpNow >= gtPoll.wake

\* Mutant: the next poll is issued without delay.
PollAtOnce == cdpNow

\* setTimeout(check, 100)
NextPollAt == cdpNow + POLL_DELAY_MS

\* check(): this.send("Runtime.evaluate", {expression: "document.readyState"})
\* up to its await; a send that throws ends the chain.
Check(o) ==
  /\ SendBy("poll", o)
  /\ gtPoll' = IF o \in {"throws", "refused"}
               THEN [pc |-> "dead", id |-> 0, wake |-> 0]
               ELSE [pc |-> "awaiting", id |-> NextId, wake |-> 0]

\* goto(url, options) up to await this.send("Page.navigate", { url })
Goto(timeout) ==
  /\ gtPc = "idle"
  /\ gtTimeout' = timeout
  /\ \E o \in SendOutcomes :
       /\ SendBy("navigate", o)
       /\ IF o \in {"throws", "refused"}
          THEN gtPc' = "rejected" /\ gtError' = "send" /\ gtAwait' = 0
          ELSE gtPc' = "navigating" /\ gtError' = gtError /\ gtAwait' = NextId
  /\ UNCHANGED notGoto
  /\ UNCHANGED <<gtPoll, gtTimer>>
  /\ UNCHANGED <<cdpPhase, cdpConnect, cdpHandler, cdpNow, cdpMsgs, cdpLast, cdpConnects,
                 prPending, prStarted, prNextFire>>

\* The navigate call is settled: goto rejects with its error, or starts the
\* race: check() issues the first poll, then the timeout timer is set.
NavigateSettled ==
  /\ gtPc = "navigating"
  /\ cdpCalls[CallOf(gtAwait)].status # "pending"
  /\ IF cdpCalls[CallOf(gtAwait)].status = "rejected"
     THEN /\ gtPc' = "rejected"
          /\ gtError' = "navigate"
          /\ UNCHANGED <<gtPoll, gtTimer, cdpMessageId, cdpPending, cdpCalls>>
     ELSE /\ gtPc' = "racing"
          /\ gtError' = gtError
          /\ \E o \in SendOutcomes : Check(o)
          /\ gtTimer' = [state |-> "armed", due |-> cdpNow + gtTimeout]
  /\ UNCHANGED notGoto
  /\ UNCHANGED <<gtTimeout, gtAwait>>
  /\ UNCHANGED <<cdpPhase, cdpConnect, cdpHandler, cdpNow, cdpMsgs, cdpLast, cdpConnects,
                 prPending, prStarted, prNextFire>>

\* check() after its await: resolve() on "complete", else setTimeout(check, 100);
\* a rejected poll ends the chain.
PollSettled ==
  /\ gtPoll.pc = "awaiting"
  /\ cdpCalls[CallOf(gtPoll.id)].status # "pending"
  /\ IF cdpCalls[CallOf(gtPoll.id)].status = "rejected"
     THEN /\ gtPoll' = [gtPoll EXCEPT !.pc = "dead"]
          /\ UNCHANGED gtPc
     ELSE IF cdpCalls[CallOf(gtPoll.id)].reply = "complete"
     THEN /\ gtPoll' = [gtPoll EXCEPT !.pc = "done"]
          /\ gtPc' = IF gtPc = "racing" THEN "resolved" ELSE gtPc
     ELSE /\ gtPoll' = [gtPoll EXCEPT !.pc = "sleeping", !.wake = NextPollAt]
          /\ UNCHANGED gtPc
  /\ UNCHANGED notGoto
  /\ UNCHANGED <<gtError, gtTimeout, gtAwait, gtTimer>>
  /\ UNCHANGED cdpVars

\* The timer set by setTimeout(check, 100) fires
PollTimer ==
  /\ ~MicrotaskReady
  /\ gtPoll.pc = "sleeping"
  /\ cdpNow >= gtPoll.wake
  /\ \E o \in SendOutcomes : Check(o)
  /\ UNCHANGED notGoto
  /\ UNCHANGED <<gtPc, gtError, gtTimeout, gtAwait, gtTimer>>
  /\ UNCHANGED <<cdpPhase, cdpConnect, cdpHandler, cdpNow, cdpMsgs, cdpLast, cdpConnects,
                 prPending, prStarted, prNextFire>>

\* The timer of the race fires: reject(new Error("Navigation timeout"))
TimeoutTimer ==
  /\ ~MicrotaskReady
  /\ gtTimer.state = "armed"
  /\ cdpNow >= gtTimer.due
  /\ gtTimer' = [gtTimer EXCEPT !.state = "fired"]
  /\ gtPc' = IF gtPc = "racing" THEN "rejected" ELSE gtPc
  /\ gtError' = IF gtPc = "racing" THEN "timeout" ELSE gtError
  /\ UNCHANGED notGoto
  /\ UNCHANGED <<gtTimeout, gtAwait, gtPoll>>
  /\ UNCHANGED cdpVars

\* The peer answers a call that is pending
Reply(id, kind) ==
  /\ ~MicrotaskReady
  /\ id \in cdpPending
  /\ HandleMessage(id, kind)

\* Date.now() advances by the poll delay, but not past a timer that is due
GotoTick ==
  /\ ~MicrotaskReady
  /\ ~TimerDue
  /\ cdpNow < MaxGotoTicks * POLL_DELAY_MS
  /\ cdpNow' = cdpNow + POLL_DELAY_MS
  /\ UNCHANGED notCdp
  /\ UNCHANGED <<cdpPhase, cdpConnect, cdpHandler, cdpMessageId, cdpPending, cdpCalls, cdpMsgs,
                 cdpLast, cdpConnects, prPending, prStarted, prNextFire>>

GotoNext ==
  \/ \E timeout \in GotoTimeouts : Goto(timeout)
  \/ NavigateSettled
  \/ PollSettled
  \/ PollTimer
  \/ TimeoutTimer
  \/ \E id \in 1..cdpMessageId, kind \in ReplyKinds : Reply(id, kind)
  \/ GotoTick

\* ------------------------------------------------------------------------
\* Claims about CDPPage
\* ------------------------------------------------------------------------
Calls == 1..Len(cdpCalls)
Delivered == cdpMsgs' = cdpMsgs + 1

\* C16: a response whose id matches no pending correlation (a duplicate, a
\* stale one, one arriving after close) is ignored: handleMessage completes,
\* the pending table and every call are left as they were; a matched response
\* touches only its own call and entry; so no send is resolved or rejected by
\* more than one response.
C16_UnmatchedResponseIgnored ==
  /\ [](\A k \in Calls : cdpCalls[k].answered <= 1)
  /\ [][Delivered =>
         /\ ~cdpLast'.matched => cdpPending' = cdpPending /\ cdpCalls' = cdpCalls
         /\ cdpPending' \ {cdpLast'.id} = cdpPending \ {cdpLast'.id}
         /\ Len(cdpCalls') = Len(cdpCalls)
         /\ \A k \in Calls : cdpCalls[k].id # cdpLast'.id => cdpCalls'[k] = cdpCalls[k]]_vars

\* A duplicate of an answered response has been ignored while another call is
\* pending, after close() as well.
C16_Witness ==
  /\ cdpLast.kind # "none"
  /\ ~cdpLast.matched
  /\ cdpPhase = "closed"
  /\ \E k \in Calls : cdpCalls[k].id = cdpLast.id /\ cdpCalls[k].status = "resolved"
  /\ \E k \in Calls : cdpCalls[k].id \in cdpPending /\ cdpCalls[k].status = "pending"

Assigned == {k \in Calls : cdpCalls[k].id # 0}
Sent == Len(cdpCalls') = Len(cdpCalls) + 1 /\ cdpCalls'[Len(cdpCalls')].id # 0

\* C17: the ids send assigns are strictly increasing, hence unique, and a new
\* call never takes the id, or overwrites the correlation entry, of a call
\* that is still pending.
C17_IdsUniqueIncreasing ==
  /\ [](\A j, k \in Assigned : j < k => cdpCalls[j].id < cdpCalls[k].id)
  /\ [][Sent =>
         /\ cdpCalls'[Len(cdpCalls')].id \notin cdpPending
         /\ cdpCalls'[Len(cdpCalls')].id > cdpMessageId
         /\ cdpPending' = cdpPending \cup {cdpCalls'[Len(cdpCalls')].id}]_vars

\* A call got its id while an earlier call was still pending.
C17_Witness ==
  \E j, k \in Assigned :
    /\ j < k
    /\ cdpCalls[j].status = "pending"
    /\ cdpCalls[j].id \in cdpPending
    /\ cdpCalls[k].id \in cdpPending
    /\ cdpCalls[k].by = "user"

\* C18: after close() the pending table is empty and no call that was
\* pending at close is left unsettled.
C18_CloseSettlesPending ==
  cdpPhase = "closed" =>
    /\ cdpPending = {}
    /\ \A k \in Calls : cdpCalls[k].status # "pending"

\* The time the cleanup timer last fired (0: not yet)
LastFire == prNextFire - STALE_PENDING_THRESHOLD_MS

\* C19: a call whose response never arrives does not stay pending: its
\* correlation entry is gone once the cleanup has run with the entry older
\* than the staleness threshold.
C19_StaleCorrelationRemoved ==
  \A k \in Calls :
    cdpCalls[k].id \in cdpPending => ~StaleAt(LastFire, cdpCalls[k].sentAt)

\* C20: calls are dispatched only on a ready connection: a send that is not
\* written to the transport fails with an error and leaves no entry in the
\* pending table.
C20_UndispatchedSendLeavesNothing ==
  \A k \in Calls :
    ~cdpCalls[k].written =>
      /\ cdpCalls[k].status = "rejected"
      /\ cdpCalls[k].id \notin cdpPending

\* ------------------------------------------------------------------------
\* Claims about CDPPage.goto
\* ------------------------------------------------------------------------
Polls == {k \in Calls : cdpCalls[k].by = "poll"}
Acknowledged == gtAwait # 0 /\ cdpCalls[CallOf(gtAwait)].status = "resolved"
ReportedComplete == gtPoll.pc = "done"

\* C21: once the navigate command is acknowledged, goto polls the readiness
\* expression one request at a time, successive polls at least the fixed
\* delay apart; it resolves when a poll reports "complete" while the timer of
\* the race has not fired, and otherwise the timer rejects it with the
\* navigation-timeout error; the outcome, once settled, does not change.
C21_GotoPollsUntilCompleteOrTimeout ==
  /\ [](Polls # {} => Acknowledged)
  /\ [](Cardinality({k \in Polls : cdpCalls[k].status = "pending"}) <= 1)
  /\ [](\A j, k \in Polls : j < k => cdpCalls[k].sentAt >= cdpCalls[j].sentAt + POLL_DELAY_MS)
  /\ [](gtPc = "resolved" => ReportedComplete)
  /\ [](ReportedComplete /\ gtTimer.state # "fired" => gtPc = "resolved")
  /\ [](Acknowledged /\ gtPc = "rejected" => gtError = "timeout" /\ gtTimer.state = "fired")
  /\ [](gtTimer.state = "fired" => gtPc \in {"resolved", "rejected"} /\ cdpNow >= gtTimer.due)
  /\ [][(gtPc = "resolved" \/ gtPc = "rejected") => (gtPc' = gtPc /\ gtError' = gtError)]_vars

\* The second poll, one delay after the first, reported "complete" in time.
C21_Witness ==
  /\ gtPc = "resolved"
  /\ gtTimer.state = "armed"
  /\ Cardinality(Polls) = 2
  /\ \E k \in Polls : cdpCalls[k].reply = "result"

GotoSettled == gtPc = "resolved" \/ gtPc = "rejected"
PollSent == Len(cdpCalls') = Len(cdpCalls) + 1 /\ cdpCalls'[Len(cdpCalls')].by = "poll"

\* C34: the loser of the race between the poll loop and the deadline timer is
\* cancelled: once goto has settled, no further readiness evaluation is sent
\* on the connection, after a timeout rejection in particular.
C34_NoPollAfterGotoSettled ==
  [][GotoSettled => ~PollSent]_vars

\* The clock of the model reaches the deadline of the call: the timer of the
\* race is due within the modelled time, or will be as soon as it is set.
Horizon == MaxGotoTicks * POLL_DELAY_MS
DeadlineInReach ==
  \/ gtPc = "navigating" /\ gtTimeout = 0
  \/ gtPc = "racing" /\ gtTimer.due <= Horizon

\* C37: a goto call eventually settles once its timeout has elapsed, even if
\* the peer never answers the navigate command or answers a readiness
\* evaluation with an error.
C37_GotoEventuallySettles ==
  DeadlineInReach ~> GotoSettled

\* ========================================================================
\* PoolManager: one undici pool per origin
\* ========================================================================
Origins == {"o1", "o2"}
NoCloseAll == [pc |-> "idle", closing |-> {}]

PmIdle ==
  /\ pmPools = [o \in Origins |-> None]
  /\ pmState = <<>>
  /\ pmCloseAll = NoCloseAll
  /\ pmCloses = 0
  /\ pmGot = <<>>

\* this.pools.get(origin)
Lookup(origin) == pmPools[origin]

\* getPool(origin): the pool of the origin, made and stored if there is none
GetPool(origin) ==
  /\ Len(pmGot) < MaxGets
  /\ LET found == Lookup(origin)
         pool == IF found # None THEN found ELSE Len(pmState) + 1
     IN /\ pmState' = IF found # None THEN pmState ELSE Append(pmState, "open")
        /\ pmPools' = [pmPools EXCEPT ![origin] = pool]
        /\ pmGot' = Append(pmGot, [origin |-> origin, pool |-> pool,
                                   state |-> IF found # None THEN pmState[found] ELSE "open",
                                   closeAll |-> pmCloseAll.pc, closes |-> pmCloses])
  /\ UNCHANGED notPm
  /\ UNCHANGED <<pmCloseAll, pmCloses>>

\* closeAll() up to await Promise.all(closePromises): pool.close() is called
\* on every pool in the map
CloseAll ==
  /\ pmCloseAll.pc # "closing"
  /\ pmCloses < MaxShutdowns
  /\ pmCloses' = pmCloses + 1
  /\ pmCloseAll' = [pc |-> "closing", closing |-> {pmPools[o] : o \in Origins} \ {None}]
  /\ pmState' = [k \in 1..Len(pmState) |->
                   IF k \in {pmPools[o] : o \in Origins} /\ pmState[k] = "open"
                   THEN "closing" ELSE pmState[k]]
  /\ UNCHANGED notPm
  /\ UNCHANGED <<pmPools, pmGot>>

\* The closes are settled.  All fulfilled: this.pools.clear() and closeAll
\* returns; one rejected: Promise.all rejects and closeAll throws before the
\* clear.
CloseAllDone ==
  /\ pmCloseAll.pc = "closing"
  /\ pmState' = [k \in 1..Len(pmState) |->
                   IF k \in pmCloseAll.closing THEN "closed" ELSE pmState[k]]
  /\ \/ /\ pmPools' = [o \in Origins |-> None]
        /\ pmCloseAll' = [pmCloseAll EXCEPT !.pc = "done"]
     \/ /\ pmCloseAll.closing # {}
        /\ pmPools' = pmPools
        /\ pmCloseAll' = [pmCloseAll EXCEPT !.pc = "failed"]
  /\ UNCHANGED notPm
  /\ UNCHANGED <<pmCloses, pmGot>>

PmNext ==
  \/ \E origin \in Origins : GetPool(origin)
  \/ CloseAll
  \/ CloseAllDone

\* ------------------------------------------------------------------------
\* Claims about PoolManager
\* ------------------------------------------------------------------------
Gets == 1..Len(pmGot)
CloseAllReturns == pmCloseAll.pc = "closing" /\ pmCloseAll'.pc = "done"

\* C27: getPool returns the same pool for the same origin and different
\* pools for different origins; when closeAll() returns, every pool made so
\* far is closed and the map is empty; once a closeAll() has settled, getPool
\* hands out no pool that has been closed.
C27_OnePoolPerOriginClosedOnShutdown ==
  /\ [](\A i, j \in Gets :
          (pmGot[i].origin # pmGot[j].origin) => (pmGot[i].pool # pmGot[j].pool))
  /\ [](\A i, j \in Gets :
          (/\ pmGot[i].origin = pmGot[j].origin
           /\ pmGot[i].closes = pmGot[j].closes
           /\ pmGot[i].closeAll = pmGot[j].closeAll) => (pmGot[i].pool = pmGot[j].pool))
  /\ [][CloseAllReturns =>
          /\ \A o \in Origins : pmPools'[o] = None
          /\ \A k \in 1..Len(pmState') : pmState'[k] = "closed"]_vars
  /\ [](\A i \in Gets : pmGot[i].closeAll \in {"done", "failed"} => pmGot[i].state = "open")

\* ========================================================================
\* ScrapeUseCase.getAvailableScrapers
\* ========================================================================
Builds == {"full", "basic", "native"}
NoProbes == [browser |-> "none", playwright |-> "none"]

AvIdle ==
  /\ avVariant = "full"
  /\ avPc = "idle"
  /\ avList = <<>>
  /\ avProbes = NoProbes
  /\ avReturned = <<>>

AvInit ==
  /\ avVariant \in Builds
  /\ avPc = "idle"
  /\ avList = <<>>
  /\ avProbes = NoProbes
  /\ avReturned = <<>>

\* const available: string[] = [...]; the native build returns a literal
AlwaysListed ==
  CASE avVariant = "full" -> <<"fetch", "undici">>
    [] avVariant = "basic" -> <<"fetch">>
    [] OTHER -> <<"fetch", "fetch-pool">>

AvReturn(list, probes, kind) ==
  /\ avReturned' = Append(avReturned, [kind |-> kind, list |-> list, probes |-> probes])
  /\ avPc' = "idle"
  /\ avList' = <<>>
  /\ avProbes' = NoProbes

\* getAvailableScrapers() is called and runs to its first await, or, in the
\* native build, to its return.
GetAvailableScrapers ==
  /\ avPc = "idle"
  /\ Len(avReturned) < MaxListings
  /\ CASE avVariant = "full" ->
            avPc' = "browser" /\ avList' = AlwaysListed /\ UNCHANGED <<avProbes, avReturned>>
       [] avVariant = "basic" ->
            avPc' = "playwright" /\ avList' = AlwaysListed /\ UNCHANGED <<avProbes, avReturned>>
       [] OTHER -> AvReturn(AlwaysListed, NoProbes, "ok")
  /\ UNCHANGED notAv
  /\ UNCHANGED avVariant

\* Mutant: a probed backend is listed whatever the probe answered.
ListedAlways(r) == TRUE

\* if (await scraper.isAvailable())
Listed(r) == r = "true"

\* await this.browserScraper.isAvailable() settles; a rejection leaves the
\* function.
BrowserProbed ==
  /\ avPc = "browser"
  /\ \E r \in ProbeOutcomes("browser") :
       LET probes == [avProbes EXCEPT !.browser = r]
       IN IF r = "throw"
          THEN AvReturn(avList, probes, "error")
          ELSE /\ avPc' = "playwright"
               /\ avProbes' = probes
               /\ avList' = IF Listed(r) THEN Append(avList, "browser") ELSE avList
               /\ avReturned' = avReturned
  /\ UNCHANGED notAv
  /\ UNCHANGED avVariant

\* await this.playwrightScraper.isAvailable() settles; return available
PlaywrightProbed ==
  /\ avPc = "playwright"
  /\ \E r \in ProbeOutcomes("playwright") :
       LET probes == [avProbes EXCEPT !.playwright = r]
       IN IF r = "throw"
          THEN AvReturn(avList, probes, "error")
          ELSE AvReturn(IF Listed(r) THEN Append(avList, "playwright") ELSE avList,
                        probes, "ok")
  /\ UNCHANGED notAv
  /\ UNCHANGED avVariant

AvNext ==
  \/ GetAvailableScrapers
  \/ BrowserProbed
  \/ PlaywrightProbed

\* ------------------------------------------------------------------------
\* Claims about getAvailableScrapers
\* ------------------------------------------------------------------------
Names(list) == {list[i] : i \in 1..Len(list)}
HttpClass == IF avVariant = "full" THEN {"fetch", "undici"} ELSE {"fetch"}

\* C29: the list getAvailableScrapers returns holds a browser-class backend
\* if and only if that backend's isAvailable() probe answered true, always
\* holds the HTTP-class backends, and holds nothing else and nothing twice;
\* in the native build it is exactly "fetch" and "fetch-pool".
C29_ListsUsableBackends ==
  \A k \in 1..Len(avReturned) :
    LET r == avReturned[k]
    IN r.kind = "ok" =>
         /\ Len(r.list) = Cardinality(Names(r.list))
         /\ IF avVariant = "native"
            THEN /\ Names(r.list) = {"fetch", "fetch-pool"}
                 /\ "playwright" \notin Names(r.list)
                 /\ "undici" \notin Names(r.list)
            ELSE /\ \A b \in BrowserClass : b \in Names(r.list) <=> r.probes[b] = "true"
                 /\ HttpClass \subseteq Names(r.list)
                 /\ Names(r.list) \subseteq HttpClass \cup BrowserClass

C29_Witness ==
  /\ avVariant = "full"
  /\ Len(avReturned) = 2
  /\ avReturned[1].kind = "ok"
  /\ avReturned[1].probes = [browser |-> "false", playwright |-> "true"]
  /\ avReturned[1].list = <<"fetch", "undici", "playwright">>
  /\ avReturned[2].kind = "ok"
  /\ avReturned[2].list = <<"fetch", "undici", "browser">>

\* ========================================================================
\* SemanticCrawlUseCase.execute: breadth-first crawl bounded by maxPages
\* ========================================================================
CrawlUrls == {"p1", "p2", "p3"}

\* target.maxPages is a positive number, not necessarily whole
\* (z.number().positive()): it is kept in halves, 5 standing for 2.5, and a
\* count n is compared with it as Whole(n).
\* target.maxDepth is a non-negative number (z.number().nonnegative()) and
\* is kept in halves in the same way.
Whole(n) == 2 * n

EntryLists == UNION {[1..n -> CrawlUrls] : n \in 0..MaxEntryPoints}
LinkLists == UNION {[1..n -> CrawlUrls] : n \in 0..MaxLinks}

\* rejected: the URLs the include/exclude patterns turn away
CrawlTargets ==
  [entryPoints : EntryLists, maxPages : 1..MaxPagesTwice,
   maxDepth : 0..MaxDepthTwice, rejected : SUBSET {"p2"}]

NoEntry == [url |-> "none", depth |-> 0]
NoCrawlResult == [returned |-> FALSE, pagesScanned |-> 0, errors |-> 0]

CrIdle ==
  /\ crTarget = [entryPoints |-> <<>>, maxPages |-> 2, maxDepth |-> 0, rejected |-> {}]
  /\ crPc = "idle"
  /\ crQueue = <<>>
  /\ crVisited = {}
  /\ crCurrent = NoEntry
  /\ crAborted = FALSE
  /\ crRunning = FALSE
  /\ crScraped = <<>>
  /\ crErrors = 0
  /\ crResult = NoCrawlResult

CrInit ==
  /\ crTarget \in CrawlTargets
  /\ crPc = "idle"
  /\ crQueue = <<>>
  /\ crVisited = {}
  /\ crCurrent = NoEntry
  /\ crAborted = FALSE
  /\ crRunning = FALSE
  /\ crScraped = <<>>
  /\ crErrors = 0
  /\ crResult = NoCrawlResult

\* execute(target) up to the while loop
CrawlExecute ==
  /\ crPc = "idle"
  /\ crPc' = "loop"
  /\ crRunning' = TRUE
  /\ crAborted' = FALSE
  /\ crVisited' = {}
  /\ crErrors' = 0
  /\ crQueue' = [i \in 1..Len(crTarget.entryPoints) |->
                   [url |-> crTarget.entryPoints[i], depth |-> 0]]
  /\ UNCHANGED notCr
  /\ UNCHANGED <<crTarget, crCurrent, crScraped, crResult>>

\* Mutant: the loop does not look at the signal.
LoopIgnoresSignal ==
  /\ crQueue # <<>>
  /\ Whole(Cardinality(crVisited)) < crTarget.maxPages

\* while (queue.length > 0 && visited.size < target.maxPages)
\*   { if (signal.aborted) break; ...
LoopGoesOn ==
  /\ crQueue # <<>>
  /\ Whole(Cardinality(crVisited)) < crTarget.maxPages
  /\ ~crAborted

\* One turn of the loop up to a continue or to await this.scraper.scrape(url)
Iterate ==
  /\ crPc = "loop"
  /\ LoopGoesOn
  /\ LET entry == Head(crQueue)
     IN /\ crQueue' = Tail(crQueue)
        /\ IF entry.url \in crVisited
           THEN UNCHANGED <<crVisited, crPc, crCurrent, crScraped>>
           ELSE /\ crVisited' = crVisited \cup {entry.url}
                /\ IF entry.url \in crTarget.rejected
                   THEN UNCHANGED <<crPc, crCurrent, crScraped>>
                   ELSE /\ crPc' = "scrape"
                        /\ crCurrent' = entry
                        /\ crScraped' = Append(crScraped, entry)
  /\ UNCHANGED notCr
  /\ UNCHANGED <<crTarget, crAborted, crRunning, crErrors, crResult>>

\* The loop is left: this.running = false; return {pagesScanned: visited.size, ...}
Finish ==
  /\ crPc = "loop"
  /\ ~LoopGoesOn
  /\ crPc' = "done"
  /\ crRunning' = FALSE
  /\ crResult' = [returned |-> TRUE, pagesScanned |-> Cardinality(crVisited),
                  errors |-> crErrors]
  /\ UNCHANGED notCr
  /\ UNCHANGED <<crTarget, crQueue, crVisited, crCurrent, crAborted, crScraped, crErrors>>

\* for (const link of links)
\*   if (!visited.has(link) && visited.size + queue.length < target.maxPages)
\*     queue.push([link, depth + 1])
RECURSIVE PushLinks(_, _, _)
PushLinks(links, queue, depth) ==
  IF links = <<>> THEN queue
  ELSE LET link == Head(links)
           room == Whole(Cardinality(crVisited) + Len(queue)) < crTarget.maxPages
       IN PushLinks(Tail(links),
                    IF link \notin crVisited /\ room
                    THEN Append(queue, [url |-> link, depth |-> depth + 1])
                    ELSE queue,
                    depth)

\* await this.scraper.scrape(url, {signal}) settles: it throws, or answers
\* without html, or with a page holding the links; the loop goes round.
ScrapeSettled ==
  /\ crPc = "scrape"
  /\ crPc' = "loop"
  /\ crCurrent' = NoEntry
  /\ \E kind \in {"throw", "empty", "html"}, links \in LinkLists :
       /\ crErrors' = IF kind = "throw" THEN crErrors + 1 ELSE crErrors
       /\ crQueue' = IF kind = "html" /\ Whole(crCurrent.depth) < crTarget.maxDepth
                     THEN PushLinks(links, crQueue, crCurrent.depth)
                     ELSE crQueue
  /\ UNCHANGED notCr
  /\ UNCHANGED <<crTarget, crVisited, crAborted, crRunning, crScraped, crResult>>

\* cancel() while execute is waiting for a page
Cancel ==
  /\ crPc = "scrape"
  /\ ~crAborted
  /\ crAborted' = TRUE
  /\ crRunning' = FALSE
  /\ UNCHANGED notCr
  /\ UNCHANGED <<crTarget, crPc, crQueue, crVisited, crCurrent, crScraped, crErrors, crResult>>

CrNext ==
  \/ CrawlExecute
  \/ Iterate
  \/ Finish
  \/ ScrapeSettled
  \/ Cancel

\* ------------------------------------------------------------------------
\* Claims about SemanticCrawlUseCase
\* ------------------------------------------------------------------------
\* C30: at every step visited.size <= target.maxPages; the pagesScanned that
\* execute reports and the number of scrape calls it makes are at most
\* target.maxPages, whatever links the pages return.
C30_NeverMoreThanMaxPages ==
  /\ Whole(Cardinality(crVisited)) <= crTarget.maxPages
  /\ Whole(Len(crScraped)) <= crTarget.maxPages
  /\ crResult.returned => Whole(crResult.pagesScanned) <= crTarget.maxPages

InCrawl == crPc = "loop" \/ crPc = "scrape"

\* C31: isRunning() is true from the start of execute until execute finishes
\* or cancel() is called; once cancel() was called during a crawl, isRunning()
\* is false, no further scrape call is started and no further URL visited,
\* and, the scrape in flight having settled, execute resolves with the count
\* of the pages visited so far.
C31_CancelStopsTheCrawl ==
  /\ []((InCrawl /\ ~crAborted) => crRunning)
  /\ []((crAborted \/ crPc = "done") => ~crRunning)
  /\ [][crAborted => (crScraped' = crScraped /\ crVisited' = crVisited)]_vars
  /\ []((crAborted /\ crPc = "done") =>
          (crResult.returned /\ crResult.pagesScanned = Cardinality(crVisited)))
  /\ (crAborted ~> crPc = "done")

C31_Witness ==
  /\ crAborted /\ crPc = "done" /\ crResult.returned
  /\ crQueue # <<>>
  /\ Len(crScraped) = 1
  /\ crResult.pagesScanned = 1

\* C40: during one execute each URL is scraped at most once, only URLs at
\* depth <= target.maxDepth are scraped, and a URL rejected by the include or
\* exclude patterns is never scraped.
C40_ScrapesOncePerUrlWithinDepth ==
  /\ \A i, j \in 1..Len(crScraped) : crScraped[i].url = crScraped[j].url => i = j
  /\ \A i \in 1..Len(crScraped) : Whole(crScraped[i].depth) <= crTarget.maxDepth
  /\ \A i \in 1..Len(crScraped) : crScraped[i].url \notin crTarget.rejected

\* ========================================================================
\* MemoryStorageAdapter: the storage port over a Map
\* ========================================================================
\* Keys are strings, kept as sequences of characters for startsWith.
StorageKeys == {<<"a">>, <<"a", "b">>, <<"b">>}
StorageValues == {"", "v1", "v2"}
Undefined == "undefined"
Null == "null"
Prefixes == {<<>>, <<"a">>}
NoStorageCall == [op |-> "none", key |-> <<>>, ret |-> Null]

MsIdle ==
  /\ msData = <<>>
  /\ msHistory = <<>>
  /\ msLast = NoStorageCall

\* Map.has(key)
DataHas(key) == \E i \in 1..Len(msData) : msData[i].key = key

\* Map.get(key)
DataGet(key) ==
  IF DataHas(key)
  THEN msData[CHOOSE i \in 1..Len(msData) : msData[i].key = key].value
  ELSE Undefined

\* Map.set(key, value): an existing key keeps its place
DataSet(key, value) ==
  IF DataHas(key)
  THEN [i \in 1..Len(msData) |->
          IF msData[i].key = key THEN [key |-> key, value |-> value] ELSE msData[i]]
  ELSE Append(msData, [key |-> key, value |-> value])

\* Map.delete(key)
DataDelete(key) == SelectSeq(msData, LAMBDA e : e.key # key)

\* Mutant: || in place of ??, which also turns the empty string into null.
Falsy(v) == v = Undefined \/ v = ""

\* x ?? null
Nullish(v) == v = Undefined

\* get(key): return this.data.get(key) ?? null
MsGet(key) ==
  /\ msLast' = [op |-> "get", key |-> key,
                ret |-> IF Nullish(DataGet(key)) THEN Null ELSE DataGet(key)]
  /\ UNCHANGED notMs
  /\ UNCHANGED <<msData, msHistory>>

\* set(key, value): this.data.set(key, value)
MsSet(key, value) ==
  /\ Len(msHistory) < MaxWrites
  /\ msData' = DataSet(key, value)
  /\ msHistory' = Append(msHistory, [op |-> "set", key |-> key, value |-> value])
  /\ msLast' = [op |-> "set", key |-> key, ret |-> Undefined]
  /\ UNCHANGED notMs

\* remove(key): this.data.delete(key)
MsRemove(key) ==
  /\ Len(msHistory) < MaxWrites
  /\ msData' = DataDelete(key)
  /\ msHistory' = Append(msHistory, [op |-> "remove", key |-> key, value |-> Undefined])
  /\ msLast' = [op |-> "remove", key |-> key, ret |-> Undefined]
  /\ UNCHANGED notMs

\* has(key): return this.data.has(key)
MsHas(key) ==
  /\ msLast' = [op |-> "has", key |-> key, ret |-> DataHas(key)]
  /\ UNCHANGED notMs
  /\ UNCHANGED <<msData, msHistory>>

\* k.startsWith(prefix)
StartsWith(k, prefix) ==
  Len(prefix) <= Len(k) /\ SubSeq(k, 1, Len(prefix)) = prefix

\* keys(prefix): every key, or, with a prefix that is not empty, those that
\* start with it, in the order of the Map
MsKeys(prefix) ==
  /\ LET allKeys == [i \in 1..Len(msData) |-> msData[i].key]
     IN msLast' = [op |-> "keys", key |-> prefix,
                   ret |-> IF prefix = <<>> THEN allKeys
                           ELSE SelectSeq(allKeys, LAMBDA k : StartsWith(k, prefix))]
  /\ UNCHANGED notMs
  /\ UNCHANGED <<msData, msHistory>>

MsNext ==
  \/ \E key \in StorageKeys : MsGet(key)
  \/ \E key \in StorageKeys, value \in StorageValues : MsSet(key, value)
  \/ \E key \in StorageKeys : MsRemove(key)
  \/ \E key \in StorageKeys : MsHas(key)
  \/ \E prefix \in Prefixes : MsKeys(prefix)

\* ------------------------------------------------------------------------
\* Claims about MemoryStorageAdapter
\* ------------------------------------------------------------------------
\* The set and remove calls on a key, in the order they were made
WritesTo(key) == SelectSeq(msHistory, LAMBDA w : w.key = key)

\* The value of the most recent set(key, v) not followed by remove(key), or
\* null when there is none
Expected(key) ==
  LET w == WritesTo(key)
  IN IF w # <<>> /\ w[Len(w)].op = "set" THEN w[Len(w)].value ELSE Null

\* A step that is one more remove of a key that was not stored
RemovesAbsent ==
  /\ Len(msHistory') = Len(msHistory) + 1
  /\ msHistory'[Len(msHistory')].op = "remove"
  /\ Expected(msHistory'[Len(msHistory')].key) = Null

\* C32: after any sequence of set and remove calls, get(k) answers the value
\* of the most recent set(k, v) not followed by remove(k) and null otherwise;
\* has(k) is true exactly when such a value is stored; remove of a key that
\* is not stored returns and changes no key.
C32_GetReturnsLatestSet ==
  /\ [](msLast.op = "get" => msLast.ret = Expected(msLast.key))
  /\ [](msLast.op = "has" => (msLast.ret <=> Expected(msLast.key) # Null))
  /\ [][RemovesAbsent => (msData' = msData /\ msLast'.ret = Undefined)]_vars

C32_Witness ==
  /\ msHistory = <<[op |-> "set", key |-> <<"a">>, value |-> "v1"],
                   [op |-> "set", key |-> <<"a">>, value |-> ""],
                   [op |-> "remove", key |-> <<"b">>, value |-> Undefined]>>
  /\ msLast = [op |-> "get", key |-> <<"a">>, ret |-> ""]


\* ========================================================================
\* PlaywrightScraperAdapter: the shared browser of getBrowser() and close()
\* ========================================================================
MaxBrowserCalls == 3

NoBrowser == None
NoScrapeCall == [pc |-> "idle", browser |-> NoBrowser]
NoClose == [pc |-> "idle", browser |-> NoBrowser]

PbIdle ==
  /\ pbBrowser = NoBrowser
  /\ pbLaunched = <<>>
  /\ pbCall = [c \in Callers |-> NoScrapeCall]
  /\ pbClose = NoClose
  /\ pbCalls = 0

\* scrape() with no cache hit and no abort, through createContext() into
\* getBrowser(), up to the first await: with this.browser set the call goes
\* on with it, otherwise it awaits import("playwright").
PbScrape(c) ==
  /\ pbCall[c].pc = "idle"
  /\ pbCalls < MaxBrowserCalls
  /\ pbCalls' = pbCalls + 1
  /\ pbCall' = [pbCall EXCEPT ![c] =
       IF pbBrowser # NoBrowser
       THEN [pc |-> "work", browser |-> pbBrowser]
       ELSE [pc |-> "import", browser |-> NoBrowser]]
  /\ UNCHANGED notPb
  /\ UNCHANGED <<pbBrowser, pbLaunched, pbClose>>

\* The import is settled: playwright.chromium.launch(...) is called, or the
\* import rejects and scrape throws.
ImportDone(c) ==
  /\ pbCall[c].pc = "import"
  /\ \/ pbCall' = [pbCall EXCEPT ![c].pc = "launch"]
     \/ pbCall' = [pbCall EXCEPT ![c] = NoScrapeCall]
  /\ UNCHANGED notPb
  /\ UNCHANGED <<pbBrowser, pbLaunched, pbClose, pbCalls>>

\* this.browser = await playwright.chromium.launch(...); return this.browser
\* (or the launch rejects and scrape throws).
LaunchDone(c) ==
  /\ pbCall[c].pc = "launch"
  /\ \/ /\ pbLaunched' = Append(pbLaunched, "open")
        /\ pbBrowser' = Len(pbLaunched) + 1
        /\ pbCall' = [pbCall EXCEPT ![c] = [pc |-> "work", browser |-> Len(pbLaunched) + 1]]
     \/ /\ pbCall' = [pbCall EXCEPT ![c] = NoScrapeCall]
        /\ UNCHANGED <<pbBrowser, pbLaunched>>
  /\ UNCHANGED notPb
  /\ UNCHANGED <<pbClose, pbCalls>>

\* The rest of scrape(): context, page, navigation, extraction and the
\* finally block; it returns or throws, and leaves the browser as it is.
ScrapeWorkDone(c) ==
  /\ pbCall[c].pc = "work"
  /\ pbCall' = [pbCall EXCEPT ![c] = NoScrapeCall]
  /\ UNCHANGED notPb
  /\ UNCHANGED <<pbBrowser, pbLaunched, pbClose, pbCalls>>

\* close(), up to its await: if (this.browser) await this.browser.close()
PbClose ==
  /\ pbClose.pc = "idle"
  /\ pbCalls < MaxBrowserCalls
  /\ pbCalls' = pbCalls + 1
  /\ pbClose' = IF pbBrowser # NoBrowser
                THEN [pc |-> "closing", browser |-> pbBrowser]
                ELSE [pc |-> "returned", browser |-> NoBrowser]
  /\ UNCHANGED notPb
  /\ UNCHANGED <<pbBrowser, pbLaunched, pbCall>>

\* The close of the browser is settled: this.browser = null
PbCloseDone ==
  /\ pbClose.pc = "closing"
  /\ pbLaunched' = [pbLaunched EXCEPT ![pbClose.browser] = "closed"]
  /\ pbBrowser' = NoBrowser
  /\ pbClose' = [pbClose EXCEPT !.pc = "returned"]
  /\ UNCHANGED notPb
  /\ UNCHANGED <<pbCall, pbCalls>>

\* The caller of close() consumes the settled promise.
PbCloseReturn ==
  /\ pbClose.pc = "returned"
  /\ pbClose' = NoClose
  /\ UNCHANGED notPb
  /\ UNCHANGED <<pbBrowser, pbLaunched, pbCall, pbCalls>>

PbNext ==
  \/ \E c \in Callers : PbScrape(c)
  \/ \E c \in Callers : ImportDone(c)
  \/ \E c \in Callers : LaunchDone(c)
  \/ \E c \in Callers : ScrapeWorkDone(c)
  \/ PbClose
  \/ PbCloseDone
  \/ PbCloseReturn

OpenBrowsers == {k \in 1..Len(pbLaunched) : pbLaunched[k] = "open"}
ScrapesInFlight == {c \in Callers : pbCall[c].pc # "idle"}
CloseSettles == pbClose.pc # "returned" /\ pbClose'.pc = "returned"

\* C36: the adapter has at most one launched browser open at a time, also
\* when several scrape calls start together on a fresh adapter, and a close()
\* that settles with no scrape in flight leaves no launched browser open.
C36_OneSharedBrowser ==
  /\ [](Cardinality(OpenBrowsers) <= 1)
  /\ [][(CloseSettles /\ ScrapesInFlight = {}) => OpenBrowsers' = {}]_vars

\* ========================================================================
\* MemoryCookieStore
\* ========================================================================
\* A domain is kept as its labels, "api.one.com" as <<"api", "one", "com">>;
\* a leading dot gives an empty first label, ".one.com" is <<"", "one", "com">>.
CookieDomains ==
  {<<"one", "com">>, <<"www", "one", "com">>, <<"", "one", "com">>,
   <<"api", "one", "com">>, <<"two", "com">>}

\* expires: seconds since the epoch, 0 for a cookie without expires; every
\* positive value used here lies in the past.
Cookies == [name : {"a", "b"}, value : {"1", "2"}, domain : CookieDomains, expires : {0, 1}]
CookieLists == UNION {[1..n -> Cookies] : n \in 1..MaxCookiesPerCall}
NoCookieCall == [op |-> "none", domain |-> <<>>, ret |-> <<>>]

CkIdle ==
  /\ ckCookies = <<>>
  /\ ckCalls = 0
  /\ ckLast = NoCookieCall

\* domain.replace(/^www\./, "")
StripWww(domain) ==
  IF Len(domain) >= 2 /\ Head(domain) = "www" THEN Tail(domain) ELSE domain

\* cookie.domain.replace(/^\./, "")
StripDot(domain) ==
  IF Len(domain) >= 2 /\ Head(domain) = "" THEN Tail(domain) ELSE domain

\* cleanDomain === storedDomain || cleanDomain.endsWith(`.${storedDomain}`)
DomainMatches(cleanDomain, storedDomain) ==
  \/ cleanDomain = storedDomain
  \/ /\ Len(cleanDomain) > Len(storedDomain)
     /\ SubSeq(cleanDomain, Len(cleanDomain) - Len(storedDomain) + 1, Len(cleanDomain))
          = storedDomain

\* if (cookie.expires && cookie.expires < now) continue
Live(cookie) == ~(cookie.expires # 0)

RECURSIVE Collect(_, _)
Collect(store, cleanDomain) ==
  IF store = <<>> THEN <<>>
  ELSE (IF DomainMatches(cleanDomain, Head(store).domain)
        THEN SelectSeq(Head(store).cookies, Live)
        ELSE <<>>) \o Collect(Tail(store), cleanDomain)

\* getCookies(domain) on a store
CookiesFor(store, domain) == Collect(store, StripWww(domain))

StoredAt(store, domain) ==
  IF \E i \in 1..Len(store) : store[i].domain = domain
  THEN store[CHOOSE i \in 1..Len(store) : store[i].domain = domain].cookies
  ELSE <<>>

\* existing[idx] = cookie, or existing.push(cookie)
Put(existing, cookie) ==
  IF \E i \in 1..Len(existing) : existing[i].name = cookie.name
  THEN LET idx == CHOOSE i \in 1..Len(existing) :
                    /\ existing[i].name = cookie.name
                    /\ \A j \in 1..(i - 1) : existing[j].name # cookie.name
       IN [existing EXCEPT ![idx] = cookie]
  ELSE Append(existing, cookie)

\* this.cookies.set(domain, list)
StoreSet(store, domain, list) ==
  IF \E i \in 1..Len(store) : store[i].domain = domain
  THEN [i \in 1..Len(store) |->
          IF store[i].domain = domain THEN [domain |-> domain, cookies |-> list]
          ELSE store[i]]
  ELSE Append(store, [domain |-> domain, cookies |-> list])

RECURSIVE StoreAll(_, _)
StoreAll(store, cookies) ==
  IF cookies = <<>> THEN store
  ELSE LET cookie == Head(cookies)
           domain == StripDot(cookie.domain)
       IN StoreAll(StoreSet(store, domain, Put(StoredAt(store, domain), cookie)),
                   Tail(cookies))

\* getCookies(domain)
GetCookies(domain) ==
  /\ ckCalls < MaxCookieCalls
  /\ ckCalls' = ckCalls + 1
  /\ ckLast' = [op |-> "getCookies", domain |-> domain, ret |-> CookiesFor(ckCookies, domain)]
  /\ UNCHANGED notCk
  /\ UNCHANGED ckCookies

\* setCookies(cookies)
SetCookies(cookies) ==
  /\ ckCalls < MaxCookieCalls
  /\ ckCalls' = ckCalls + 1
  /\ ckCookies' = StoreAll(ckCookies, cookies)
  /\ ckLast' = [op |-> "setCookies", domain |-> <<>>, ret |-> <<>>]
  /\ UNCHANGED notCk

\* clearCookies(domain): this.cookies.delete(domain.replace(/^www\./, ""))
ClearCookies(domain) ==
  /\ ckCalls < MaxCookieCalls
  /\ ckCalls' = ckCalls + 1
  /\ ckCookies' = SelectSeq(ckCookies, LAMBDA e : e.domain # StripWww(domain))
  /\ ckLast' = [op |-> "clearCookies", domain |-> domain, ret |-> <<>>]
  /\ UNCHANGED notCk

\* clearCookies(): this.cookies.clear()
ClearAllCookies ==
  /\ ckCalls < MaxCookieCalls
  /\ ckCalls' = ckCalls + 1
  /\ ckCookies' = <<>>
  /\ ckLast' = [op |-> "clearAll", domain |-> <<>>, ret |-> <<>>]
  /\ UNCHANGED notCk

CkNext ==
  \/ \E domain \in CookieDomains : GetCookies(domain)
  \/ \E cookies \in CookieLists : SetCookies(cookies)
  \/ \E domain \in CookieDomains : ClearCookies(domain)
  \/ ClearAllCookies

\* ------------------------------------------------------------------------
\* Claims about MemoryCookieStore
\* ------------------------------------------------------------------------
Cleared == ckCalls' = ckCalls + 1 /\ ckLast'.op = "clearCookies"
ClearedAll == ckCalls' = ckCalls + 1 /\ ckLast'.op = "clearAll"

\* C33: after clearCookies(domain), getCookies(domain) returns no cookies and
\* the cookies stored under every other domain are as they were; after
\* clearCookies() without an argument no cookie is left.
C33_ClearCookiesClearsTheDomain ==
  /\ [][Cleared =>
          /\ CookiesFor(ckCookies', ckLast'.domain) = <<>>
          /\ \A d \in CookieDomains :
               d # StripWww(ckLast'.domain) => StoredAt(ckCookies', d) = StoredAt(ckCookies, d)]_vars
  /\ [][ClearedAll =>
          (ckCookies' = <<>> /\ \A d \in CookieDomains : CookiesFor(ckCookies', d) = <<>>)]_vars

\* ------------------------------------------------------------------------
\* Specifications
\* ------------------------------------------------------------------------
\* Each specification starts one component in its constructed state and keeps
\* the other components idle.
InitSession == SmInit /\ BatchIdle /\ UcIdle /\ ScIdle /\ LcIdle /\ CdpIdle /\ GtIdle /\ MgrIdle /\ PmIdle /\ AvIdle /\ CrIdle /\ MsIdle /\ CkIdle /\ PbIdle

SpecSession == InitSession /\ [][SmNext]_vars

InitManager == MgrInit /\ BatchIdle /\ UcIdle /\ ScIdle /\ LcIdle /\ CdpIdle /\ GtIdle /\ PmIdle /\ AvIdle /\ CrIdle /\ MsIdle /\ CkIdle /\ PbIdle

SpecManager == InitManager /\ [][MgrNext]_vars

InitReuse == MgrInit /\ BatchIdle /\ UcIdle /\ ScIdle /\ LcIdle /\ CdpIdle /\ GtIdle /\ PmIdle /\ AvIdle /\ CrIdle /\ MsIdle /\ CkIdle /\ PbIdle

SpecReuse == InitReuse /\ [][ReuseNext]_vars

InitBatch == BatchInit /\ SmInit /\ UcIdle /\ ScIdle /\ LcIdle /\ CdpIdle /\ GtIdle /\ MgrIdle /\ PmIdle /\ AvIdle /\ CrIdle /\ MsIdle /\ CkIdle /\ PbIdle

SpecBatch == InitBatch /\ [][BatchNext]_vars

InitUseCase == UcInit /\ SmInit /\ BatchIdle /\ ScIdle /\ LcIdle /\ CdpIdle /\ GtIdle /\ MgrIdle /\ PmIdle /\ AvIdle /\ CrIdle /\ MsIdle /\ CkIdle /\ PbIdle

SpecUseCase == InitUseCase /\ [][UcNext]_vars

InitScrape == ScInit /\ SmInit /\ BatchIdle /\ UcIdle /\ LcIdle /\ CdpIdle /\ GtIdle /\ MgrIdle /\ PmIdle /\ AvIdle /\ CrIdle /\ MsIdle /\ CkIdle /\ PbIdle

SpecScrape == InitScrape /\ [][ScNext]_vars

InitLru == LcInit /\ SmInit /\ BatchIdle /\ UcIdle /\ CdpIdle /\ GtIdle /\ MgrIdle /\ PmIdle /\ AvIdle /\ CrIdle /\ MsIdle /\ CkIdle /\ PbIdle

SpecLru == InitLru /\ [][LcNext]_vars

InitCdp == CdpIdle /\ SmInit /\ BatchIdle /\ UcIdle /\ ScIdle /\ LcIdle /\ GtIdle /\ MgrIdle /\ PmIdle /\ AvIdle /\ CrIdle /\ MsIdle /\ CkIdle /\ PbIdle

SpecCdp == InitCdp /\ [][CdpNext]_vars

InitStale == CdpIdle /\ SmInit /\ BatchIdle /\ UcIdle /\ ScIdle /\ LcIdle /\ GtIdle /\ MgrIdle /\ PmIdle /\ AvIdle /\ CrIdle /\ MsIdle /\ CkIdle /\ PbIdle

SpecStale == InitStale /\ [][StaleNext]_vars

InitGoto == Connected /\ GtIdle /\ SmInit /\ BatchIdle /\ UcIdle /\ ScIdle /\ LcIdle /\ MgrIdle /\ PmIdle /\ AvIdle /\ CrIdle /\ MsIdle /\ CkIdle /\ PbIdle

SpecGoto == InitGoto /\ [][GotoNext]_vars

\* Continuations and due timers run and time passes; the peer need not answer.
SpecGotoFair ==
  /\ SpecGoto
  /\ WF_vars(NavigateSettled) /\ WF_vars(PollSettled)
  /\ WF_vars(PollTimer) /\ WF_vars(TimeoutTimer) /\ WF_vars(GotoTick)

InitPools == PmIdle /\ SmInit /\ MgrIdle /\ BatchIdle /\ UcIdle /\ ScIdle /\ LcIdle /\ CdpIdle /\ GtIdle /\ AvIdle /\ CrIdle /\ MsIdle /\ CkIdle /\ PbIdle

SpecPools == InitPools /\ [][PmNext]_vars

InitAvailable == AvInit /\ SmInit /\ MgrIdle /\ BatchIdle /\ UcIdle /\ ScIdle /\ LcIdle /\ CdpIdle /\ GtIdle /\ PmIdle /\ CrIdle /\ MsIdle /\ CkIdle /\ PbIdle

SpecAvailable == InitAvailable /\ [][AvNext]_vars

InitCrawl == CrInit /\ SmInit /\ MgrIdle /\ BatchIdle /\ UcIdle /\ ScIdle /\ LcIdle /\ CdpIdle /\ GtIdle /\ PmIdle /\ AvIdle /\ MsIdle /\ CkIdle /\ PbIdle

SpecCrawl == InitCrawl /\ [][CrNext]_vars

InitStorage == MsIdle /\ SmInit /\ MgrIdle /\ BatchIdle /\ UcIdle /\ ScIdle /\ LcIdle /\ CdpIdle /\ GtIdle /\ PmIdle /\ AvIdle /\ CrIdle /\ CkIdle /\ PbIdle

SpecStorage == InitStorage /\ [][MsNext]_vars

InitCookies == CkIdle /\ SmInit /\ MgrIdle /\ BatchIdle /\ UcIdle /\ ScIdle /\ LcIdle /\ CdpIdle /\ GtIdle /\ PmIdle /\ AvIdle /\ CrIdle /\ MsIdle /\ PbIdle

SpecCookies == InitCookies /\ [][CkNext]_vars

InitBrowser == PbIdle /\ SmInit /\ MgrIdle /\ BatchIdle /\ UcIdle /\ ScIdle /\ LcIdle /\ CdpIdle /\ GtIdle /\ PmIdle /\ AvIdle /\ CrIdle /\ MsIdle /\ CkIdle

SpecBrowser == InitBrowser /\ [][PbNext]_vars

\* The scrape in flight settles and the loop of execute runs on.
SpecCrawlFair == SpecCrawl /\ WF_vars(Iterate) /\ WF_vars(ScrapeSettled) /\ WF_vars(Finish)

====
